---- MODULE Spec2Model ----
(***************************************************************************)
(* Model of the Timepon metadata server (src/mcp-server/index.js): the     *)
(* in-memory metadata index, the watcher add/ready handlers, refresh-all,  *)
(* and the durable writer with its retry timers.                           *)
(*                                                                         *)
(* Strings are sequences of UTF-16 code units (natural numbers); a buffer  *)
(* is a sequence of bytes.  Every await of the source is a point where an  *)
(* action ends; the code between two awaits is one atomic action.          *)
(***************************************************************************)
EXTENDS Integers, Sequences, FiniteSets, TLC

(***************************************************************************)
(* Bounds of the model                                                     *)
(***************************************************************************)
\* number of add-event handlers that may be suspended at an await at once
MaxHandlers == 2
\* number of retry chains of the durable writer that may be pending at once
MaxTimers == 1
\* number of file births (creations on disk) in one behaviour
MaxClock == 2
\* tracked paths in the runs that study the batches of refresh-all
NumPaths == 12
\* the number of paths tracked in the runs over workspaces with directories
MaxTracked == 4

(***************************************************************************)
(* Program constants (class TimeponServer)                                 *)
(***************************************************************************)
MAX_FILE_SIZE == 1048576
BINARY_DETECTION_SAMPLE == 512
SAVE_RETRY_MAX == 3
SAVE_RETRY_BASE_DELAY == 1000
BATCH_SIZE == 10
SUMMARY_MAX == 80
TAGS_MAX == 3

(***************************************************************************)
(* String helpers (JavaScript String / path semantics)                     *)
(***************************************************************************)
\* String.prototype.slice(from) with 0-based from
SliceFrom(s, from) == SubSeq(s, from + 1, Len(s))

\* String.prototype.slice(0, n)
SliceTo(s, n) == SubSeq(s, 1, IF Len(s) < n THEN Len(s) ELSE n)

\* white space as matched by trim() and by \s
SpaceClass ==
  {9, 10, 11, 12, 13, 32, 160, 5760, 8232, 8233, 8239, 8287, 12288, 65279} \cup 8192..8202

IsSpace(c) == c \in SpaceClass

\* l.trim() is truthy: some character is not white space
NonBlank(l) == \E i \in 1..Len(l) : ~IsSpace(l[i])

\* l.trim()
Trim(l) ==
  IF ~NonBlank(l) THEN <<>>
  ELSE LET a == CHOOSE i \in 1..Len(l) : ~IsSpace(l[i]) /\ \A j \in 1..(i-1) : IsSpace(l[j])
           b == CHOOSE i \in 1..Len(l) : ~IsSpace(l[i]) /\ \A j \in (i+1)..Len(l) : IsSpace(l[j])
       IN SubSeq(l, a, b)

\* s.startsWith(p)
StartsWith(s, p) == Len(s) >= Len(p) /\ SubSeq(s, 1, Len(p)) = p

\* s.includes(p)
Includes(s, p) ==
  \E i \in 0..(Len(s) - Len(p)) : SubSeq(s, i + 1, i + Len(p)) = p

\* s.toLowerCase() on the ASCII range
ToLowerCase(s) == [i \in 1..Len(s) |-> IF s[i] >= 65 /\ s[i] <= 90 THEN s[i] + 32 ELSE s[i]]

\* number of leading characters of s that belong to the character class
LeadingRun(s, class) ==
  IF \A i \in 1..Len(s) : s[i] \in class THEN Len(s)
  ELSE (CHOOSE i \in 1..Len(s) : s[i] \notin class /\ \A j \in 1..(i-1) : s[j] \in class) - 1

\* s.split('\n'): the pieces between consecutive line feeds, nl(k) being the
\* position of the k-th line feed of s (0 before the first, Len(s) + 1 after
\* the last)
Split(s) ==
  LET feeds == {i \in 1..Len(s) : s[i] = 10}
      nl(k) == IF k = 0 THEN 0
               ELSE IF k > Cardinality(feeds) THEN Len(s) + 1
               ELSE CHOOSE i \in feeds : Cardinality({j \in feeds : j < i}) = k - 1
  IN [k \in 1..(Cardinality(feeds) + 1) |-> SubSeq(s, nl(k - 1) + 1, nl(k) - 1)]

\* lines.filter(l => l.trim())
NonBlankLines(lines) == SelectSeq(lines, NonBlank)

\* path.basename(p) for a POSIX path
BaseName(p) ==
  IF \E i \in 1..Len(p) : p[i] = 47
  THEN LET k == CHOOSE i \in 1..Len(p) : p[i] = 47 /\ \A j \in (i+1)..Len(p) : p[j] # 47
       IN SubSeq(p, k + 1, Len(p))
  ELSE p

\* path.extname(p): from the last '.' of the base name; '' when there is no
\* '.', when the last '.' is the first character, or when the name is '..'
ExtName(p) ==
  LET b == BaseName(p) IN
  IF (\E i \in 2..Len(b) : b[i] = 46) /\ b # <<46, 46>>
  THEN LET k == CHOOSE i \in 2..Len(b) : b[i] = 46 /\ \A j \in (i+1)..Len(b) : b[j] # 46
       IN SubSeq(b, k, Len(b))
  ELSE <<>>

(***************************************************************************)
(* String literals of the source                                           *)
(***************************************************************************)
\* " file"
S_file == <<32, 102, 105, 108, 101>>
\* " source file"
S_source_file == <<32, 115, 111, 117, 114, 99, 101, 32, 102, 105, 108, 101>>
\* "Empty markdown file"
S_empty_md == <<69, 109, 112, 116, 121, 32, 109, 97, 114, 107, 100, 111, 119, 110, 32, 102, 105, 108, 101>>
\* ".md"
X_md == <<46, 109, 100>>
\* "md"
E_md == <<109, 100>>
\* tags "code", "docs", "config"
T_code == <<99, 111, 100, 101>>
T_docs == <<100, 111, 99, 115>>
T_config == <<99, 111, 110, 102, 105, 103>>
\* tags "tasks", "api", "data", "architecture"
T_tasks == <<116, 97, 115, 107, 115>>
T_api == <<97, 112, 105>>
T_data == <<100, 97, 116, 97>>
T_architecture == <<97, 114, 99, 104, 105, 116, 101, 99, 116, 117, 114, 101>>
\* keywords "todo", "task", "endpoint", "schema", "database", "design"
K_todo == <<116, 111, 100, 111>>
K_task == <<116, 97, 115, 107>>
K_endpoint == <<101, 110, 100, 112, 111, 105, 110, 116>>
K_schema == <<115, 99, 104, 101, 109, 97>>
K_database == <<100, 97, 116, 97, 98, 97, 115, 101>>
K_design == <<100, 101, 115, 105, 103, 110>>

\* .txt .md .json .js .ts .py .java .cs .go .rb .php .html .css .xml .yaml
\* .yml .toml .ini .sh .bat .ps1
knownTextExts ==
  { <<46, 116, 120, 116>>, <<46, 109, 100>>, <<46, 106, 115, 111, 110>>,
    <<46, 106, 115>>, <<46, 116, 115>>, <<46, 112, 121>>,
    <<46, 106, 97, 118, 97>>, <<46, 99, 115>>, <<46, 103, 111>>,
    <<46, 114, 98>>, <<46, 112, 104, 112>>, <<46, 104, 116, 109, 108>>,
    <<46, 99, 115, 115>>, <<46, 120, 109, 108>>, <<46, 121, 97, 109, 108>>,
    <<46, 121, 109, 108>>, <<46, 116, 111, 109, 108>>, <<46, 105, 110, 105>>,
    <<46, 115, 104>>, <<46, 98, 97, 116>>, <<46, 112, 115, 49>> }

\* .exe .dll .so .dylib .bin .dat .zip .tar .gz .7z .rar .jpg .jpeg .png
\* .gif .bmp .pdf .doc .docx .xls
knownBinaryExts ==
  { <<46, 101, 120, 101>>, <<46, 100, 108, 108>>, <<46, 115, 111>>,
    <<46, 100, 121, 108, 105, 98>>, <<46, 98, 105, 110>>, <<46, 100, 97, 116>>,
    <<46, 122, 105, 112>>, <<46, 116, 97, 114>>, <<46, 103, 122>>,
    <<46, 55, 122>>, <<46, 114, 97, 114>>, <<46, 106, 112, 103>>,
    <<46, 106, 112, 101, 103>>, <<46, 112, 110, 103>>, <<46, 103, 105, 102>>,
    <<46, 98, 109, 112>>, <<46, 112, 100, 102>>, <<46, 100, 111, 99>>,
    <<46, 100, 111, 99, 120>>, <<46, 120, 108, 115>> }

\* .js .ts .py .java .cs .go
summaryCodeExts ==
  { <<46, 106, 115>>, <<46, 116, 115>>, <<46, 112, 121>>,
    <<46, 106, 97, 118, 97>>, <<46, 99, 115>>, <<46, 103, 111>> }

\* js ts py java cs go rb php cpp c rs
codeExts ==
  { <<106, 115>>, <<116, 115>>, <<112, 121>>,
    <<106, 97, 118, 97>>, <<99, 115>>, <<103, 111>>,
    <<114, 98>>, <<112, 104, 112>>, <<99, 112, 112>>,
    <<99>>, <<114, 115>> }

\* md txt rst adoc
docExts ==
  { <<109, 100>>, <<116, 120, 116>>, <<114, 115, 116>>,
    <<97, 100, 111, 99>> }

\* json yaml yml toml ini env
configExts ==
  { <<106, 115, 111, 110>>, <<121, 97, 109, 108>>, <<121, 109, 108>>,
    <<116, 111, 109, 108>>, <<105, 110, 105>>, <<101, 110, 118>> }

(***************************************************************************)
(* Binary/text classifier, summary and tag extraction                      *)
(***************************************************************************)
\* magic-byte table of isBinary, tried only on buffers of at least 4 bytes
MagicBytes(buffer) ==
  /\ Len(buffer) >= 4
  /\ \/ (buffer[1] = 80 /\ buffer[2] = 75)
     \/ (buffer[1] = 137 /\ buffer[2] = 80 /\ buffer[3] = 78 /\ buffer[4] = 71)
     \/ (buffer[1] = 71 /\ buffer[2] = 73 /\ buffer[3] = 70)
     \/ (buffer[1] = 255 /\ buffer[2] = 216)
     \/ (buffer[1] = 37 /\ buffer[2] = 80 /\ buffer[3] = 68 /\ buffer[4] = 70)

\* bytes below 32 other than tab, line feed and carriage return
NonPrintable(buffer, sampleSize) ==
  Cardinality({i \in 1..sampleSize : buffer[i] < 32 /\ buffer[i] \notin {9, 10, 13}})

\* variant of isBinary: an empty buffer counts as binary
isBinaryEmptyIsBinary(buffer, filePath) ==
  LET ext == ToLowerCase(ExtName(filePath))
      sampleSize == IF Len(buffer) < BINARY_DETECTION_SAMPLE
                    THEN Len(buffer) ELSE BINARY_DETECTION_SAMPLE
  IN IF ext \in knownTextExts THEN FALSE
     ELSE IF ext \in knownBinaryExts THEN TRUE
     ELSE IF MagicBytes(buffer) THEN TRUE
     ELSE IF sampleSize = 0 THEN TRUE
     ELSE NonPrintable(buffer, sampleSize) * 10 > sampleSize * 3

\* variant of isBinary: the magic bytes are looked at before the extension
isBinaryMagicFirst(buffer, filePath) ==
  LET ext == ToLowerCase(ExtName(filePath))
      sampleSize == IF Len(buffer) < BINARY_DETECTION_SAMPLE
                    THEN Len(buffer) ELSE BINARY_DETECTION_SAMPLE
  IN IF MagicBytes(buffer) THEN TRUE
     ELSE IF ext \in knownTextExts THEN FALSE
     ELSE IF ext \in knownBinaryExts THEN TRUE
     ELSE IF sampleSize = 0 THEN FALSE
     ELSE NonPrintable(buffer, sampleSize) * 10 > sampleSize * 3

\* isBinary(buffer, filePath); the threshold 0.3 is compared as 3/10
isBinary(buffer, filePath) ==
  LET ext == ToLowerCase(ExtName(filePath))
      sampleSize == IF Len(buffer) < BINARY_DETECTION_SAMPLE
                    THEN Len(buffer) ELSE BINARY_DETECTION_SAMPLE
  IN IF ext \in knownTextExts THEN FALSE
     ELSE IF ext \in knownBinaryExts THEN TRUE
     ELSE IF MagicBytes(buffer) THEN TRUE
     ELSE IF sampleSize = 0 THEN FALSE
     ELSE NonPrintable(buffer, sampleSize) * 10 > sampleSize * 3

\* buffer.toString('utf-8') for buffers whose bytes at or above 128 are not
\* part of a well-formed sequence: each becomes U+FFFD
Utf8ToString(buffer) ==
  [i \in 1..Len(buffer) |-> IF buffer[i] < 128 THEN buffer[i] ELSE 65533]

\* the part of readFileContent after a successful fs.readFile
ContentOfBuffer(buffer, filePath) ==
  IF isBinary(buffer, filePath) THEN <<>> ELSE Utf8ToString(buffer)

\* lines.find(pred), hits being the indices of the lines satisfying pred:
\* the first such line, or <<>> standing for
\* undefined together with found = FALSE
FindLine(lines, hits) ==
  IF hits # {}
  THEN [found |-> TRUE,
        line |-> lines[CHOOSE i \in hits : \A j \in hits : i <= j]]
  ELSE [found |-> FALSE, line |-> <<>>]

\* the character classes # and [\/\/#]
HashClass == {35}
SlashOrHashClass == {47, 35}

\* heading.replace(/^#+\s*/, '')
StripHeading(l) ==
  LET a == SliceFrom(l, LeadingRun(l, HashClass))
  IN IF LeadingRun(l, HashClass) = 0 THEN l ELSE SliceFrom(a, LeadingRun(a, SpaceClass))

\* comment.replace(/^[\/\/#]+\s*/, '')
StripComment(l) ==
  LET a == SliceFrom(l, LeadingRun(l, SlashOrHashClass))
  IN IF LeadingRun(l, SlashOrHashClass) = 0 THEN l ELSE SliceFrom(a, LeadingRun(a, SpaceClass))

IsHeading(l) == StartsWith(l, <<35>>)
IsComment(l) == StartsWith(Trim(l), <<47, 47>>) \/ StartsWith(Trim(l), <<35>>)

generateSummary(content, filePath) ==
  LET ext == ExtName(filePath)
      lines == NonBlankLines(Split(content))
      heading == FindLine(lines, {i \in 1..Len(lines) : IsHeading(lines[i])})
      comment == FindLine(lines, {i \in 1..Len(lines) : IsComment(lines[i])})
      firstLine == FindLine(Split(content), {i \in 1..Len(Split(content)) : NonBlank(Split(content)[i])})
  IN IF content = <<>> THEN ext \o S_file
     ELSE IF ext = X_md
     THEN IF heading.found THEN SliceTo(StripHeading(heading.line), SUMMARY_MAX)
          ELSE IF lines # <<>> /\ SliceTo(lines[1], SUMMARY_MAX) # <<>>
               THEN SliceTo(lines[1], SUMMARY_MAX)
               ELSE S_empty_md
     ELSE IF ext \in summaryCodeExts
     THEN IF comment.found THEN SliceTo(StripComment(comment.line), SUMMARY_MAX)
          ELSE SliceFrom(ext, 1) \o S_source_file
     ELSE IF firstLine.found /\ SliceTo(firstLine.line, SUMMARY_MAX) # <<>>
          THEN SliceTo(firstLine.line, SUMMARY_MAX)
          ELSE BaseName(filePath)

\* variant of generateTags: the last three tags are kept
generateTagsLastThree(content, filePath) ==
  LET ext == SliceFrom(ExtName(filePath), 1)
      lower == ToLowerCase(content)
      t1 == IF ext # <<>> THEN <<ext>> ELSE <<>>
      t2 == IF ext \in codeExts THEN <<T_code>>
            ELSE IF ext \in docExts THEN <<T_docs>>
            ELSE IF ext \in configExts THEN <<T_config>>
            ELSE <<>>
      md == ext = E_md /\ content # <<>>
      t3 == IF md /\ (Includes(lower, K_todo) \/ Includes(lower, K_task))
            THEN <<T_tasks>> ELSE <<>>
      t4 == IF md /\ (Includes(lower, T_api) \/ Includes(lower, K_endpoint))
            THEN <<T_api>> ELSE <<>>
      t5 == IF md /\ (Includes(lower, K_schema) \/ Includes(lower, K_database))
            THEN <<T_data>> ELSE <<>>
      t6 == IF md /\ (Includes(lower, T_architecture) \/ Includes(lower, K_design))
            THEN <<T_architecture>> ELSE <<>>
  IN LET all == t1 \o t2 \o t3 \o t4 \o t5 \o t6
     IN SubSeq(all, IF Len(all) > TAGS_MAX THEN Len(all) - TAGS_MAX + 1 ELSE 1, Len(all))

generateTags(content, filePath) ==
  LET ext == SliceFrom(ExtName(filePath), 1)
      lower == ToLowerCase(content)
      t1 == IF ext # <<>> THEN <<ext>> ELSE <<>>
      t2 == IF ext \in codeExts THEN <<T_code>>
            ELSE IF ext \in docExts THEN <<T_docs>>
            ELSE IF ext \in configExts THEN <<T_config>>
            ELSE <<>>
      md == ext = E_md /\ content # <<>>
      t3 == IF md /\ (Includes(lower, K_todo) \/ Includes(lower, K_task))
            THEN <<T_tasks>> ELSE <<>>
      t4 == IF md /\ (Includes(lower, T_api) \/ Includes(lower, K_endpoint))
            THEN <<T_api>> ELSE <<>>
      t5 == IF md /\ (Includes(lower, K_schema) \/ Includes(lower, K_database))
            THEN <<T_data>> ELSE <<>>
      t6 == IF md /\ (Includes(lower, T_architecture) \/ Includes(lower, K_design))
            THEN <<T_architecture>> ELSE <<>>
  IN SliceTo(t1 \o t2 \o t3 \o t4 \o t5 \o t6, TAGS_MAX)

(***************************************************************************)
(* The workspace: the files the watcher may report and what they hold      *)
(***************************************************************************)
\* "/w/a.md" under the workspace root "/w"
PathA == <<47, 119, 47, 97, 46, 109, 100>>
Paths == {PathA}

\* file content "# A", and "# B" as the first line of a file above 1 MiB
BytesHeading == <<35, 32, 65>>
BytesLarge == <<35, 32, 66, 10>>

\* what a file on disk may hold: its size and its bytes (of a file above
\* 1 MiB only the first line, the rest being filler)
FileKinds ==
  { [size |-> Len(BytesHeading), bytes |-> BytesHeading],
    [size |-> MAX_FILE_SIZE + 1, bytes |-> BytesLarge] }

NoFile == [present |-> FALSE, birth |-> 0, size |-> 0, bytes |-> <<>>]

(***************************************************************************)
(* Ignore patterns: globToRegex, parseIgnoreFile, loadIgnorePatterns       *)
(***************************************************************************)
\* A regular expression built by globToRegex is kept as the three parts it
\* is concatenated from: lead is "sep" for (^|[/\\]) and "start" for ^, body
\* is the translated pattern, one token per character (the character code
\* for an escaped or plain character, -42 for the .* that replaces * and -63
\* for the . that replaces ?), and dirOnly tells whether ([/\\]|$) follows.
\* the characters . does not match
LineTerminators == {10, 13, 8232, 8233}

\* the path separators of the class [/\\]
Separators == {47, 92}

\* variant of globToRegex: the pattern may match anywhere in the path
globToRegexUnanchored(pattern) ==
  LET isDirectoryOnly == pattern # <<>> /\ pattern[Len(pattern)] = 47
      p == IF isDirectoryOnly THEN SubSeq(pattern, 1, Len(pattern) - 1) ELSE pattern
      regexPattern == [i \in 1..Len(p) |-> IF p[i] \in {42, 63} THEN -p[i] ELSE p[i]]
  IN [lead |-> "sep", body |-> <<-42>> \o regexPattern, dirOnly |-> isDirectoryOnly]

\* globToRegex(pattern)
globToRegex(pattern) ==
  LET isDirectoryOnly == pattern # <<>> /\ pattern[Len(pattern)] = 47
      p == IF isDirectoryOnly THEN SubSeq(pattern, 1, Len(pattern) - 1) ELSE pattern
      regexPattern == [i \in 1..Len(p) |-> IF p[i] \in {42, 63} THEN -p[i] ELSE p[i]]
  IN IF ~StartsWith(p, <<47>>)
     THEN [lead |-> "sep", body |-> regexPattern, dirOnly |-> isDirectoryOnly]
     ELSE [lead |-> "start", body |-> SliceFrom(regexPattern, 1), dirOnly |-> isDirectoryOnly]

\* the places of s (counted in characters consumed) a match can have reached
\* after one more token, having reached one of the places at
MatchToken(t, s, at) ==
  IF t = -42
  THEN {j \in 0..Len(s) : \E i \in at : i <= j /\ \A k \in (i + 1)..j : s[k] \notin LineTerminators}
  ELSE IF t = -63
  THEN {i + 1 : i \in {i \in at : i < Len(s) /\ s[i + 1] \notin LineTerminators}}
  ELSE {i + 1 : i \in {i \in at : i < Len(s) /\ s[i + 1] = t}}

RECURSIVE MatchBody(_, _, _)
MatchBody(body, s, at) ==
  IF body = <<>> \/ at = {} THEN at
  ELSE MatchBody(Tail(body), s, MatchToken(Head(body), s, at))

\* regex.test(s): the expression matches somewhere in s
RegExpTest(regex, s) ==
  LET starts == IF regex.lead = "start" THEN {0}
                ELSE {0} \cup {i \in 1..Len(s) : s[i] \in Separators}
      ends == MatchBody(regex.body, s, starts)
  IN IF regex.dirOnly
     THEN \E e \in ends : e = Len(s) \/ s[e + 1] \in Separators
     ELSE ends # {}

\* "/w/.tponignore", "/w/.gitignore"
tponignorePath == <<47, 119, 47, 46, 116, 112, 111, 110, 105, 103, 110, 111, 114, 101>>
gitignorePath == <<47, 119, 47, 46, 103, 105, 116, 105, 103, 110, 111, 114, 101>>

\* .filter(line => line && !line.startsWith('#'))
IsPatternLine(line) == line # <<>> /\ ~StartsWith(line, <<35>>)

\* parseIgnoreFile(filePath) on the files d: a file that is missing or cannot
\* be read gives no pattern
parseIgnoreFile(d, filePath) ==
  IF filePath \notin DOMAIN d \/ ~d[filePath].present THEN <<>>
  ELSE LET trimmed == [i \in 1..Len(Split(Utf8ToString(d[filePath].bytes))) |->
                         Trim(Split(Utf8ToString(d[filePath].bytes))[i]) ]
           kept == SelectSeq(trimmed, IsPatternLine)
       IN [i \in 1..Len(kept) |-> globToRegex(kept[i])]

\* /(^|[\/\\])_timepon\.yaml/ and /(^|[\/\\])_timepon\.yaml\.backup\./
builtInPatterns ==
  << [lead |-> "sep", body |-> <<95, 116, 105, 109, 101, 112, 111, 110, 46, 121, 97, 109, 108>>, dirOnly |-> FALSE],
     [lead |-> "sep", body |-> <<95, 116, 105, 109, 101, 112, 111, 110, 46, 121, 97, 109, 108, 46, 98, 97, 99, 107, 117, 112, 46>>, dirOnly |-> FALSE] >>

\* variant of loadIgnorePatterns: the built-in patterns are left out when an
\* ignore file gives patterns of its own
loadIgnorePatternsOverridable(d) ==
  IF parseIgnoreFile(d, tponignorePath) \o parseIgnoreFile(d, gitignorePath) # <<>>
  THEN parseIgnoreFile(d, tponignorePath) \o parseIgnoreFile(d, gitignorePath)
  ELSE builtInPatterns

\* loadIgnorePatterns on the files d
loadIgnorePatterns(d) ==
  parseIgnoreFile(d, tponignorePath) \o parseIgnoreFile(d, gitignorePath) \o builtInPatterns

\* the watcher's test of a path against its ignored option: any pattern
\* that matches excludes the path
IsIgnored(patterns, p) == \E i \in 1..Len(patterns) : RegExpTest(patterns[i], p)

(***************************************************************************)
(* State                                                                   *)
(***************************************************************************)
VARIABLES
  phase,          \* "constructed", "loaded" (loadMetadata done), "watching"
  alive,          \* the process has not terminated
  files,          \* this.metadata.files: path -> record
  fileKeys,       \* Object.keys(this.metadata.files): insertion order
  isInitializing, \* this.isInitializing
  saveRetryCount, \* this.saveRetryCount
  handlers,       \* suspended handleFileCreation calls
  ready,          \* the watcher's 'ready' handler
  refresh,        \* the refreshMetadata call
  timers,         \* setTimeout retries of saveMetadata
  response,       \* payload returned by the last refresh_metadata request
  disk,           \* the files of the workspace
  watched,        \* paths the watcher has reported with 'add'
  doc,            \* the persisted document _timepon.yaml
  clock,          \* birth times handed out so far
  ignored         \* the ignored option of the watcher: compiled patterns

vars == <<phase, alive, files, fileKeys, isInitializing, saveRetryCount,
          handlers, ready, refresh, timers, response, disk, watched, doc,
          clock, ignored>>

NoDoc == [exists |-> FALSE, totalFiles |-> 0, files |-> <<>>]
NoSnap == NoDoc

IdleHandler ==
  [pc |-> "idle", path |-> <<>>, birth |-> 0, initial |-> FALSE, snap |-> NoSnap]
IdleTimer == [pc |-> "idle", n |-> 0, delayMs |-> 0, snap |-> NoSnap]
IdleReady == [pc |-> "idle", snap |-> NoSnap]
IdleJob == [pc |-> "none", birth |-> 0]
\* started lists the paths refreshFile has been called with, in call order
IdleRefreshOver(ps) ==
  [pc |-> "idle", existingFiles |-> <<>>, i |-> 0, job |-> [p \in ps |-> IdleJob],
   started |-> <<>>,
   updatedCount |-> 0, errorCount |-> 0, staleCount |-> 0, snap |-> NoSnap]
IdleRefresh == IdleRefreshOver(Paths)
NoResponse == [kind |-> "none"]

Init ==
  /\ phase = "constructed"
  /\ alive = TRUE
  /\ files = <<>>
  /\ fileKeys = <<>>
  /\ isInitializing = FALSE
  /\ saveRetryCount = 0
  /\ handlers = [h \in 1..MaxHandlers |-> IdleHandler]
  /\ ready = IdleReady
  /\ refresh = IdleRefresh
  /\ timers = [t \in 1..MaxTimers |-> IdleTimer]
  /\ response = NoResponse
  /\ disk = [p \in Paths |-> NoFile]
  /\ watched = {}
  /\ doc = NoDoc
  /\ clock = 0
  /\ ignored = <<>>

Tracked(p) == p \in DOMAIN files

(***************************************************************************)
(* Index records                                                           *)
(***************************************************************************)
\* the metadata object built by handleFileCreation and by refreshFile
NewRecord(created, content, filePath) ==
  [created |-> created,
   summary |-> generateSummary(content, filePath),
   tags |-> generateTags(content, filePath),
   stale |-> FALSE,
   staleReason |-> "none"]

\* this.metadata.files[filePath] = metadata
PutRecord(f, filePath, rec) ==
  [p \in (DOMAIN f) \cup {filePath} |-> IF p = filePath THEN rec ELSE f[p]]

\* key order after an assignment: a new key goes last, an old one stays
PutKey(keys, filePath) ==
  IF \E i \in 1..Len(keys) : keys[i] = filePath THEN keys ELSE Append(keys, filePath)

\* variant of MarkStale: an unreadable file is dropped from the index
MarkStalePruning(f, filePath, reason) ==
  [p \in (DOMAIN f) \ {filePath} |-> f[p]]

\* variant of MarkStale: the flag is flipped instead of set
MarkStaleToggling(f, filePath, reason) ==
  [f EXCEPT ![filePath] = [@ EXCEPT !.stale = ~@, !.staleReason = reason]]

\* the catch branch of refreshFile
MarkStale(f, filePath, reason) ==
  [f EXCEPT ![filePath] = [@ EXCEPT !.stale = TRUE, !.staleReason = reason]]

\* variant of RefreshedRecord: created is taken again from the file's birth
\* time, as handleFileCreation does
RefreshedRecordRestamped(f, content, filePath) ==
  PutRecord(f, filePath, NewRecord(disk[filePath].birth, content, filePath))

\* the record written by the try branch of refreshFile
RefreshedRecord(f, content, filePath) ==
  PutRecord(f, filePath, NewRecord(f[filePath].created, content, filePath))

\* buildFileTree: every record contributes a leaf with created, summary and
\* tags; the leaves are kept under their path
buildFileTree(f) ==
  [exists |-> TRUE,
   totalFiles |-> Cardinality(DOMAIN f),
   files |-> [p \in DOMAIN f |->
               [created |-> f[p].created, summary |-> f[p].summary, tags |-> f[p].tags]]]

(***************************************************************************)
(* Durable writer                                                          *)
(***************************************************************************)
RECURSIVE Pow2(_)
Pow2(n) == IF n = 0 THEN 1 ELSE 2 * Pow2(n - 1)

\* variant of saveCatch: the delay is computed before the counter is advanced
saveCatchDelayFirst(count) ==
  IF count < SAVE_RETRY_MAX
  THEN [count |-> count + 1, retry |-> TRUE,
        delayMs |-> Pow2(count) * SAVE_RETRY_BASE_DELAY, thrown |-> FALSE]
  ELSE [count |-> 0, retry |-> FALSE, delayMs |-> 0, thrown |-> FALSE]

\* variant of saveCatch: the counter is left alone when the retries run out
saveCatchNoReset(count) ==
  IF count < SAVE_RETRY_MAX
  THEN [count |-> count + 1, retry |-> TRUE,
        delayMs |-> Pow2(count + 1) * SAVE_RETRY_BASE_DELAY, thrown |-> FALSE]
  ELSE [count |-> count, retry |-> FALSE, delayMs |-> 0, thrown |-> FALSE]

\* variant of saveCatch: the error is thrown again after the retry is armed
saveCatchRethrow(count) ==
  IF count < SAVE_RETRY_MAX
  THEN [count |-> count + 1, retry |-> TRUE,
        delayMs |-> Pow2(count + 1) * SAVE_RETRY_BASE_DELAY, thrown |-> TRUE]
  ELSE [count |-> 0, retry |-> FALSE, delayMs |-> 0, thrown |-> TRUE]

\* the catch branch of saveMetadata, for the counter value it finds
saveCatch(count) ==
  IF count < SAVE_RETRY_MAX
  THEN [count |-> count + 1, retry |-> TRUE,
        delayMs |-> Pow2(count + 1) * SAVE_RETRY_BASE_DELAY, thrown |-> FALSE]
  ELSE [count |-> 0, retry |-> FALSE, delayMs |-> 0, thrown |-> FALSE]

\* the counter after a successful fs.writeFile
saveSuccess(count) == 0

\* retries armed so far by the save call a timer belongs to, counted up to
\* "more than SAVE_RETRY_MAX"
ChainNext(n) == IF n <= SAVE_RETRY_MAX THEN n + 1 ELSE n

FreeTimers == {t \in 1..MaxTimers : timers[t].pc = "idle"}

\* completion of the fs.writeFile of a save call that is not a retry:
\* ok, or the catch branch, which may arm a retry timer
FinishWrite(ok, snap) ==
  IF ok
  THEN /\ doc' = snap
       /\ saveRetryCount' = saveSuccess(saveRetryCount)
       /\ UNCHANGED timers
  ELSE LET c == saveCatch(saveRetryCount) IN
       /\ saveRetryCount' = c.count
       /\ IF c.retry
          THEN /\ FreeTimers # {}
               /\ LET t == CHOOSE x \in FreeTimers : \A y \in FreeTimers : x <= y
                  IN timers' = [timers EXCEPT ![t] =
                       [pc |-> "pending", n |-> 1, delayMs |-> c.delayMs, snap |-> NoSnap]]
          ELSE UNCHANGED timers
       /\ UNCHANGED doc

\* whether the catch branch of saveMetadata lets the failure escape
SaveThrows(ok) == ~ok /\ saveCatch(saveRetryCount).thrown

\* the setTimeout callback: saveMetadata runs up to its fs.writeFile
RetryFire(t) ==
  /\ alive
  /\ timers[t].pc = "pending"
  /\ timers' = [timers EXCEPT ![t] = [@ EXCEPT !.pc = "write", !.snap = buildFileTree(files)]]
  /\ UNCHANGED <<phase, alive, files, fileKeys, isInitializing, saveRetryCount,
                 handlers, ready, refresh, response, disk, watched, doc,
                 clock, ignored>>

\* completion of the fs.writeFile issued by a retry
RetryWriteDone(t, ok) ==
  /\ alive
  /\ timers[t].pc = "write"
  /\ IF ok
     THEN /\ doc' = timers[t].snap
          /\ saveRetryCount' = saveSuccess(saveRetryCount)
          /\ timers' = [timers EXCEPT ![t] = IdleTimer]
     ELSE LET c == saveCatch(saveRetryCount) IN
          /\ saveRetryCount' = c.count
          /\ timers' = [timers EXCEPT ![t] =
               IF c.retry
               THEN [pc |-> "pending", n |-> ChainNext(timers[t].n),
                     delayMs |-> c.delayMs, snap |-> NoSnap]
               ELSE IdleTimer]
          /\ UNCHANGED doc
  /\ UNCHANGED <<phase, alive, files, fileKeys, isInitializing, handlers, ready,
                 refresh, response, disk, watched, clock, ignored>>

(***************************************************************************)
(* Start-up                                                                *)
(***************************************************************************)
\* loadMetadata when no document exists yet: the index starts empty
loadMetadata ==
  /\ alive
  /\ phase = "constructed"
  /\ doc = NoDoc
  /\ phase' = "loaded"
  /\ files' = <<>>
  /\ fileKeys' = <<>>
  /\ UNCHANGED <<alive, isInitializing, saveRetryCount, handlers, ready, refresh,
                 timers, response, disk, watched, doc, clock, ignored>>

\* startWatching: the ignore patterns are loaded, the flag is raised and the
\* watcher is created with them
startWatching ==
  /\ alive
  /\ phase = "loaded"
  /\ phase' = "watching"
  /\ ignored' = loadIgnorePatterns(disk)
  /\ isInitializing' = TRUE
  /\ UNCHANGED <<alive, files, fileKeys, saveRetryCount, handlers, ready, refresh,
                 timers, response, disk, watched, doc, clock>>

(***************************************************************************)
(* Watcher add events: handleFileCreation                                  *)
(***************************************************************************)
FreeHandlers == {h \in 1..MaxHandlers : handlers[h].pc = "idle"}

\* variant of AddEvent: the handler goes on to fs.stat for a tracked path too
AddEventNoSkip(p) ==
  /\ alive
  /\ phase = "watching"
  /\ disk[p].present
  /\ p \notin watched
  /\ ~IsIgnored(ignored, p)
  /\ watched' = watched \cup {p}
  /\ FreeHandlers # {}
  /\ LET h == CHOOSE x \in FreeHandlers : \A y \in FreeHandlers : x <= y
     IN handlers' = [handlers EXCEPT ![h] =
          [pc |-> "stat", path |-> p, birth |-> 0,
           initial |-> isInitializing, snap |-> NoSnap]]
  /\ UNCHANGED <<phase, alive, files, fileKeys, isInitializing, saveRetryCount,
                 ready, refresh, timers, response, disk, doc, clock, ignored>>

\* the watcher reports a file that passes its ignored option and that it has
\* not reported since the file appeared;
\* the handler returns at once for a tracked path, else it awaits fs.stat
AddEvent(p) ==
  /\ alive
  /\ phase = "watching"
  /\ disk[p].present
  /\ p \notin watched
  /\ ~IsIgnored(ignored, p)
  /\ watched' = watched \cup {p}
  /\ IF Tracked(p)
     THEN UNCHANGED handlers
     ELSE /\ FreeHandlers # {}
          /\ LET h == CHOOSE x \in FreeHandlers : \A y \in FreeHandlers : x <= y
             IN handlers' = [handlers EXCEPT ![h] =
                  [pc |-> "stat", path |-> p, birth |-> 0,
                   initial |-> isInitializing, snap |-> NoSnap]]
  /\ UNCHANGED <<phase, alive, files, fileKeys, isInitializing, saveRetryCount,
                 ready, refresh, timers, response, disk, doc, clock, ignored>>

\* variant of Insert: the record is stored and left for a later save
InsertWithoutSave(h, birth, content) ==
  LET p == handlers[h].path
  IN /\ files' = PutRecord(files, p, NewRecord(birth, content, p))
     /\ fileKeys' = PutKey(fileKeys, p)
     /\ handlers' = [handlers EXCEPT ![h] = IdleHandler]

\* the record is stored and, outside the initial scan, saveMetadata runs up
\* to its fs.writeFile
Insert(h, birth, content) ==
  LET p == handlers[h].path
      f == PutRecord(files, p, NewRecord(birth, content, p))
  IN /\ files' = f
     /\ fileKeys' = PutKey(fileKeys, p)
     /\ handlers' = [handlers EXCEPT ![h] =
          IF ~isInitializing
          THEN [@ EXCEPT !.pc = "write", !.birth = 0, !.snap = buildFileTree(f)]
          ELSE IdleHandler]

\* variant of StatDone: the file is read whatever its size
StatDoneReadsAll(h, ok) ==
  /\ alive
  /\ handlers[h].pc = "stat"
  /\ ok = disk[handlers[h].path].present
  /\ LET d == disk[handlers[h].path] IN
     IF ~ok
     THEN handlers' = [handlers EXCEPT ![h] = IdleHandler]
     ELSE handlers' = [handlers EXCEPT ![h] = [@ EXCEPT !.pc = "read", !.birth = d.birth]]
  /\ UNCHANGED <<phase, alive, files, fileKeys, isInitializing, saveRetryCount, ready,
                 refresh, timers, response, disk, watched, doc, clock, ignored>>

\* fs.stat of the handler settles; a file above MAX_FILE_SIZE is not read
StatDone(h, ok) ==
  /\ alive
  /\ handlers[h].pc = "stat"
  /\ ok = disk[handlers[h].path].present
  /\ LET d == disk[handlers[h].path] IN
     IF ~ok
     THEN /\ handlers' = [handlers EXCEPT ![h] = IdleHandler]
          /\ UNCHANGED <<files, fileKeys, ignored>>
     ELSE IF d.size > MAX_FILE_SIZE
     THEN Insert(h, d.birth, <<>>)
     ELSE /\ handlers' = [handlers EXCEPT ![h] = [@ EXCEPT !.pc = "read", !.birth = d.birth]]
          /\ UNCHANGED <<files, fileKeys, ignored>>
  /\ UNCHANGED <<phase, alive, isInitializing, saveRetryCount, ready, refresh,
                 timers, response, disk, watched, doc, clock, ignored>>

\* fs.readFile of readFileContent settles; its catch turns a failure into ''
ReadDone(h, ok) ==
  /\ alive
  /\ handlers[h].pc = "read"
  /\ ok = disk[handlers[h].path].present
  /\ Insert(h, handlers[h].birth,
            IF ok THEN ContentOfBuffer(disk[handlers[h].path].bytes, handlers[h].path)
            ELSE <<>>)
  /\ UNCHANGED <<phase, alive, isInitializing, saveRetryCount, ready, refresh,
                 timers, response, disk, watched, doc, clock, ignored>>

\* the write of the handler's saveMetadata settles and the handler returns;
\* a failure escaping saveMetadata would end in the handler's own catch
HandlerWriteDone(h, ok) ==
  /\ alive
  /\ handlers[h].pc = "write"
  /\ FinishWrite(ok, handlers[h].snap)
  /\ handlers' = [handlers EXCEPT ![h] = IdleHandler]
  /\ UNCHANGED <<phase, alive, files, fileKeys, isInitializing, ready, refresh,
                 response, disk, watched, clock, ignored>>

(***************************************************************************)
(* Watcher ready event                                                     *)
(***************************************************************************)
\* the initial scan has reported every file present that is not ignored; the flag is lowered and
\* saveMetadata runs up to its fs.writeFile
Ready ==
  /\ alive
  /\ phase = "watching"
  /\ ready.pc = "idle"
  /\ isInitializing
  /\ \A p \in DOMAIN disk : disk[p].present /\ ~IsIgnored(ignored, p) => p \in watched
  /\ isInitializing' = FALSE
  /\ ready' = [pc |-> "write", snap |-> buildFileTree(files)]
  /\ UNCHANGED <<phase, alive, files, fileKeys, saveRetryCount, handlers, refresh,
                 timers, response, disk, watched, doc, clock, ignored>>

\* the write of the ready handler settles; nothing catches a failure that
\* escapes saveMetadata here, so it would end the process
ReadyWriteDone(ok) ==
  /\ alive
  /\ ready.pc = "write"
  /\ FinishWrite(ok, ready.snap)
  /\ ready' = [pc |-> "done", snap |-> NoSnap]
  /\ alive' = ~SaveThrows(ok)
  /\ UNCHANGED <<phase, files, fileKeys, isInitializing, handlers, refresh,
                 response, disk, watched, clock, ignored>>

(***************************************************************************)
(* refresh-all: refreshMetadata                                            *)
(***************************************************************************)
\* existingFiles.slice(i, i + BATCH_SIZE) as a set
Batch(existingFiles, i) ==
  {existingFiles[k] : k \in {k \in 1..Len(existingFiles) : k > i /\ k <= i + BATCH_SIZE}}

\* existingFiles.slice(i, i + BATCH_SIZE) in its order
BatchSeq(existingFiles, i) ==
  SubSeq(existingFiles, i + 1,
         IF i + BATCH_SIZE < Len(existingFiles) THEN i + BATCH_SIZE ELSE Len(existingFiles))

\* batch.map(refreshFile): every member of the batch awaits its fs.stat
StartBatch(r, i) ==
  [r EXCEPT !.pc = "batch", !.i = i,
            !.started = @ \o BatchSeq(r.existingFiles, i),
            !.job = [p \in DOMAIN r.job |-> IF p \in Batch(r.existingFiles, i)
                                            THEN [pc |-> "stat", birth |-> 0]
                                            ELSE IdleJob]]

\* variant of BatchSettled: the batch counts as settled with its first file
BatchSettledEager(r) == \E p \in DOMAIN r.job : r.job[p].pc = "done"

\* Promise.all(batch.map(refreshFile)) is fulfilled: no refreshFile is pending
BatchSettled(r) == \A p \in DOMAIN r.job : r.job[p].pc \in {"none", "done"}

\* variant of Continue: a failed path ends the loop, as a rejecting
\* Promise.all would
ContinueAbortOnFailure(r, f) ==
  IF r.errorCount > 0
  THEN [r EXCEPT !.pc = "write", !.job = [p \in DOMAIN r.job |-> IdleJob],
                 !.snap = buildFileTree(f)]
  ELSE IF ~BatchSettled(r) THEN r
  ELSE IF r.i + BATCH_SIZE < Len(r.existingFiles)
  THEN StartBatch(r, r.i + BATCH_SIZE)
  ELSE [r EXCEPT !.pc = "write", !.job = [p \in DOMAIN r.job |-> IdleJob],
                 !.snap = buildFileTree(f)]

\* what follows a settled refreshFile: when Promise.all of the batch is
\* fulfilled the loop starts the next batch, or saveMetadata runs up to its
\* fs.writeFile with the index f
Continue(r, f) ==
  IF ~BatchSettled(r) THEN r
  ELSE IF r.i + BATCH_SIZE < Len(r.existingFiles)
  THEN StartBatch(r, r.i + BATCH_SIZE)
  ELSE [r EXCEPT !.pc = "write", !.job = [p \in DOMAIN r.job |-> IdleJob],
                 !.snap = buildFileTree(f)]

\* variant of RefreshStart: with nothing tracked the request is answered
\* without a save
RefreshStartSkipEmpty ==
  /\ alive
  /\ phase = "watching"
  /\ refresh.pc = "idle"
  /\ IF Len(fileKeys) = 0
     THEN /\ refresh' = IdleRefreshOver(DOMAIN disk)
          /\ response' = [kind |-> "result"]
     ELSE /\ refresh' = StartBatch([IdleRefreshOver(DOMAIN disk) EXCEPT
                                      !.existingFiles = fileKeys], 0)
          /\ response' = NoResponse
  /\ UNCHANGED <<phase, alive, files, fileKeys, isInitializing, saveRetryCount,
                 handlers, ready, timers, disk, watched, doc, clock, ignored>>

\* a refresh_metadata request arrives: existingFiles is taken and the first
\* batch starts, or with nothing tracked saveMetadata runs up to its
\* fs.writeFile
RefreshStart ==
  /\ alive
  /\ phase = "watching"
  /\ refresh.pc = "idle"
  /\ refresh' = IF Len(fileKeys) = 0
                THEN [IdleRefreshOver(DOMAIN disk) EXCEPT
                        !.pc = "write", !.snap = buildFileTree(files)]
                ELSE StartBatch([IdleRefreshOver(DOMAIN disk) EXCEPT
                                   !.existingFiles = fileKeys], 0)
  /\ response' = NoResponse
  /\ UNCHANGED <<phase, alive, files, fileKeys, isInitializing, saveRetryCount,
                 handlers, ready, timers, disk, watched, doc, clock, ignored>>

\* variant of RefreshUpdate: the refreshed record is not counted
RefreshUpdateUncounted(p, content) ==
  LET f == RefreshedRecord(files, content, p)
      r == [refresh EXCEPT !.job[p] = [pc |-> "done", birth |-> 0]]
  IN /\ files' = f
     /\ refresh' = Continue(r, f)

\* the try branch of refreshFile once the content is known
RefreshUpdate(p, content) ==
  LET f == RefreshedRecord(files, content, p)
      r == [refresh EXCEPT !.job[p] = [pc |-> "done", birth |-> 0],
                           !.updatedCount = @ + 1]
  IN /\ files' = f
     /\ refresh' = Continue(r, f)

\* fs.stat of refreshFile settles: a failure goes to the catch branch, a file
\* above MAX_FILE_SIZE is refreshed without being read
RefreshStatDone(p, ok) ==
  /\ alive
  /\ refresh.pc = "batch"
  /\ refresh.job[p].pc = "stat"
  /\ ok = disk[p].present
  /\ IF ~ok
     THEN LET f == MarkStale(files, p, "ENOENT")
              r == [refresh EXCEPT !.job[p] = [pc |-> "done", birth |-> 0],
                                   !.errorCount = @ + 1, !.staleCount = @ + 1]
          IN /\ files' = f
             /\ refresh' = Continue(r, f)
     ELSE IF disk[p].size > MAX_FILE_SIZE
     THEN RefreshUpdate(p, <<>>)
     ELSE /\ refresh' = [refresh EXCEPT !.job[p] = [pc |-> "read", birth |-> disk[p].birth]]
          /\ UNCHANGED files
  /\ UNCHANGED <<phase, alive, fileKeys, isInitializing, saveRetryCount, handlers,
                 ready, timers, response, disk, watched, doc, clock, ignored>>

\* fs.readFile of readFileContent settles inside refreshFile; the catch of
\* readFileContent turns a failure into ''
RefreshReadDone(p, ok) ==
  /\ alive
  /\ refresh.pc = "batch"
  /\ refresh.job[p].pc = "read"
  /\ ok = disk[p].present
  /\ RefreshUpdate(p, IF ok THEN ContentOfBuffer(disk[p].bytes, p) ELSE <<>>)
  /\ UNCHANGED <<phase, alive, fileKeys, isInitializing, saveRetryCount, handlers,
                 ready, timers, response, disk, watched, doc, clock, ignored>>

\* the write of refreshMetadata's saveMetadata settles and the counts are
\* returned; a failure escaping saveMetadata would reach the catch of the
\* tool dispatcher and be answered with an error payload
RefreshWriteDone(ok) ==
  /\ alive
  /\ refresh.pc = "write"
  /\ FinishWrite(ok, refresh.snap)
  /\ response' = [kind |-> IF SaveThrows(ok) THEN "error" ELSE "result"]
  /\ refresh' = IdleRefreshOver(DOMAIN disk)
  /\ UNCHANGED <<phase, alive, files, fileKeys, isInitializing, handlers, ready,
                 disk, watched, clock, ignored>>

(***************************************************************************)
(* The filesystem                                                          *)
(***************************************************************************)
\* a file appears; its birth time is the current time
DiskCreate(p, k) ==
  /\ ~disk[p].present
  /\ clock < MaxClock
  /\ clock' = clock + 1
  /\ disk' = [disk EXCEPT ![p] =
       [present |-> TRUE, birth |-> clock + 1, size |-> k.size, bytes |-> k.bytes]]
  /\ UNCHANGED <<phase, alive, files, fileKeys, isInitializing, saveRetryCount,
                 handlers, ready, refresh, timers, response, watched, doc, ignored>>

\* a file is removed; the watcher forgets it (its 'unlink' has no listener)
DiskDelete(p) ==
  /\ disk[p].present
  /\ disk' = [disk EXCEPT ![p] = NoFile]
  /\ watched' = watched \ {p}
  /\ UNCHANGED <<phase, alive, files, fileKeys, isInitializing, saveRetryCount,
                 handlers, ready, refresh, timers, response, doc, clock, ignored>>

(***************************************************************************)
(* Specification                                                           *)
(***************************************************************************)
Startup == loadMetadata \/ startWatching

Environment ==
  \/ \E p \in Paths, k \in FileKinds : DiskCreate(p, k)
  \/ \E p \in Paths : DiskDelete(p)

Watcher ==
  \/ \E p \in Paths : AddEvent(p)
  \/ \E h \in 1..MaxHandlers, ok \in BOOLEAN : StatDone(h, ok)
  \/ \E h \in 1..MaxHandlers, ok \in BOOLEAN : ReadDone(h, ok)
  \/ Ready

WriteOk ==
  \/ \E h \in 1..MaxHandlers : HandlerWriteDone(h, TRUE)
  \/ ReadyWriteDone(TRUE)

WriteFail ==
  \/ \E h \in 1..MaxHandlers : HandlerWriteDone(h, FALSE)
  \/ ReadyWriteDone(FALSE)
  \/ \E t \in 1..MaxTimers : RetryFire(t)
  \/ \E t \in 1..MaxTimers, ok \in BOOLEAN : RetryWriteDone(t, ok)

Refresh ==
  \/ RefreshStart
  \/ \E p \in DOMAIN disk, ok \in BOOLEAN : RefreshStatDone(p, ok)
  \/ \E p \in DOMAIN disk, ok \in BOOLEAN : RefreshReadDone(p, ok)
  \/ RefreshWriteDone(TRUE)

RefreshFail == RefreshWriteDone(FALSE)

\* the whole program
Next == Startup \/ Environment \/ Watcher \/ WriteOk \/ WriteFail \/ Refresh \/ RefreshFail

Spec == Init /\ [][Next]_vars

\* the program while every write to the document succeeds
NextReliable == Startup \/ Environment \/ Watcher \/ WriteOk \/ Refresh

SpecReliable == Init /\ [][NextReliable]_vars

\* the program while no refresh_metadata request arrives
NextWriter == Startup \/ Environment \/ Watcher \/ WriteOk \/ WriteFail

SpecWriter == Init /\ [][NextWriter]_vars

(***************************************************************************)
(* refresh-all over more than one batch                                    *)
(***************************************************************************)
\* "/w/a.md", "/w/b.md", ...: the k-th tracked path
PathN(k) == <<47, 119, 47, 96 + k, 46, 109, 100>>
ManyPaths == {PathN(k) : k \in 1..NumPaths}

\* the index after the watcher has tracked the first n paths, each holding
\* "# A" when it was read, the k-th born at time k
IndexOf(n) ==
  [p \in {PathN(k) : k \in 1..n} |->
     NewRecord(p[4] - 96, Utf8ToString(BytesHeading), p)]
KeysOf(n) == [k \in 1..n |-> PathN(k)]

\* sizes of the index: nothing tracked, one file, one full batch, two batches
IndexSizes == {0, 1, BATCH_SIZE, NumPaths}

\* the paths that may have been deleted since they were tracked: the first
\* two and the last of the first batch, the first of the second; or all
GoneSets ==
  (SUBSET {PathN(1), PathN(2), PathN(BATCH_SIZE), PathN(BATCH_SIZE + 1)})
    \cup {ManyPaths}

\* what the k-th file holds now: the second, third and last are small files
\* that are read, the others have grown above MAX_FILE_SIZE
DiskOf(gone) ==
  [p \in ManyPaths |->
     IF p \in gone THEN NoFile
     ELSE IF p[4] - 96 \in {2, 3, NumPaths}
     THEN [present |-> TRUE, birth |-> p[4] - 96,
           size |-> Len(BytesHeading), bytes |-> BytesHeading]
     ELSE [present |-> TRUE, birth |-> p[4] - 96,
           size |-> MAX_FILE_SIZE + 1, bytes |-> BytesLarge]]

\* the server after its initial scan, with n files tracked; no write of the
\* document has succeeded so far and every retry has run out
InitRefresh ==
  /\ phase = "watching"
  /\ alive = TRUE
  /\ \E n \in IndexSizes : files = IndexOf(n) /\ fileKeys = KeysOf(n)
  /\ isInitializing = FALSE
  /\ saveRetryCount = 0
  /\ handlers = [h \in 1..MaxHandlers |-> IdleHandler]
  /\ ready = [pc |-> "done", snap |-> NoSnap]
  /\ refresh = IdleRefreshOver(ManyPaths)
  /\ timers = [t \in 1..MaxTimers |-> IdleTimer]
  /\ response = NoResponse
  /\ \E gone \in GoneSets :
        /\ disk = DiskOf(gone)
        /\ watched = ManyPaths \ gone
  /\ doc = NoDoc
  /\ clock = NumPaths
  /\ ignored = loadIgnorePatterns(DiskOf({}))

\* refresh_metadata requests, one after the other, on an unchanging disk
SpecRefresh == InitRefresh /\ [][Refresh]_vars

(***************************************************************************)
(* Queries: the tool dispatcher and the four list operations               *)
(***************************************************************************)
\* Times in the runs with queries are counted in days since the epoch, and an
\* hours argument in units of 24 hours (hours * 60 * 60 * 1000 ms is that
\* many days), so that the range of Date, 8.64e15 ms = 100,000,000 days
\* either side of the epoch, fits the integers of the model.
DateRangeDays == 100000000

\* new Date(t): a time value outside the range gives an Invalid Date (NaN)
NewDate(t) ==
  IF -DateRangeDays <= t /\ t <= DateRangeDays
  THEN [valid |-> TRUE, t |-> t]
  ELSE [valid |-> FALSE, t |-> 0]

\* a > b on two Dates: false when either is invalid
DateGreater(a, b) == a.valid /\ b.valid /\ a.t > b.t

\* JavaScript values a tool argument may have
JsUndefined == [t |-> "undefined", s |-> <<>>, n |-> 0]
JsString(s) == [t |-> "string", s |-> s, n |-> 0]
JsNumber(n) == [t |-> "number", s |-> <<>>, n |-> n]

\* !x
Falsy(x) ==
  \/ x.t = "undefined"
  \/ x.t = "string" /\ x.s = <<>>
  \/ x.t = "number" /\ x.n = 0

\* Object.entries(this.metadata.files), in insertion order
Entries(f, keys) == [i \in 1..Len(keys) |-> [path |-> keys[i], metadata |-> f[keys[i]]]]

\* Array.prototype.filter, keep being the indices that pass the test
RECURSIVE Pick(_, _)
Pick(s, keep) ==
  IF s = <<>> THEN <<>>
  ELSE LET rest == Pick(SubSeq(s, 1, Len(s) - 1), keep)
       IN IF Len(s) \in keep THEN Append(rest, s[Len(s)]) ELSE rest

\* variant of InsertByCreated: oldest first
InsertByCreatedOldestFirst(s, e) ==
  LET k == Cardinality({i \in 1..Len(s) : s[i].metadata.created <= e.metadata.created})
  IN SubSeq(s, 1, k) \o <<e>> \o SubSeq(s, k + 1, Len(s))

\* e put into a list sorted by created, newest first, behind the entries
\* that are not older than e
InsertByCreated(s, e) ==
  LET k == Cardinality({i \in 1..Len(s) : s[i].metadata.created >= e.metadata.created})
  IN SubSeq(s, 1, k) \o <<e>> \o SubSeq(s, k + 1, Len(s))

\* .sort(([, a], [, b]) => new Date(b.created) - new Date(a.created)): a
\* stable sort, newest first
RECURSIVE SortByCreated(_)
SortByCreated(es) ==
  IF es = <<>> THEN <<>>
  ELSE InsertByCreated(SortByCreated(SubSeq(es, 1, Len(es) - 1)), es[Len(es)])

\* path.relative(this.workspaceRoot, filePath) for a path under the root "/w"
RelativePath(filePath) == SliceFrom(filePath, 3)

\* .map(([filePath, metadata]) => ({ path: ..., ...metadata }))
ToResults(es) ==
  [i \in 1..Len(es) |->
     [path |-> RelativePath(es[i].path),
      created |-> es[i].metadata.created,
      summary |-> es[i].metadata.summary,
      tags |-> es[i].metadata.tags,
      stale |-> es[i].metadata.stale,
      staleReason |-> es[i].metadata.staleReason]]

\* outcomes of a list operation: throw new Error(message), or the object
\* that is serialised into the text payload
Throw(message) == [kind |-> "throw", message |-> message, count |-> 0, files |-> <<>>]
Return(list) == [kind |-> "return", message |-> "", count |-> Len(list), files |-> list]

getAllFiles(f, keys) == Return(ToResults(SortByCreated(Entries(f, keys))))

\* variant of getFilesByTag: a tag matches when it contains the argument
getFilesByTagSubstring(f, keys, tag) ==
  IF Falsy(tag) \/ tag.t # "string"
  THEN Throw("Tag parameter must be a non-empty string")
  ELSE LET es == Entries(f, keys)
           keep == {i \in 1..Len(es) :
                      \E j \in 1..Len(es[i].metadata.tags) :
                        Includes(es[i].metadata.tags[j], tag.s)}
       IN Return(ToResults(SortByCreated(Pick(es, keep))))

getFilesByTag(f, keys, tag) ==
  IF Falsy(tag) \/ tag.t # "string"
  THEN Throw("Tag parameter must be a non-empty string")
  ELSE LET es == Entries(f, keys)
           keep == {i \in 1..Len(es) :
                      \E j \in 1..Len(es[i].metadata.tags) : es[i].metadata.tags[j] = tag.s}
       IN Return(ToResults(SortByCreated(Pick(es, keep))))

getRecentFiles(f, keys, hours, now) ==
  IF hours.t # "number" \/ hours.n <= 0
  THEN Throw("Hours parameter must be a positive number")
  ELSE LET cutoff == NewDate(now - hours.n)
           es == Entries(f, keys)
           keep == {i \in 1..Len(es) : DateGreater(NewDate(es[i].metadata.created), cutoff)}
       IN Return(ToResults(SortByCreated(Pick(es, keep))))

\* variant of searchFiles: the whole path is searched, not the file name
searchFilesWholePath(f, keys, query) ==
  IF Falsy(query) \/ query.t # "string"
  THEN Throw("Query parameter must be a non-empty string")
  ELSE LET lowerQuery == ToLowerCase(query.s)
           es == Entries(f, keys)
           keep == {i \in 1..Len(es) :
                      \/ Includes(ToLowerCase(es[i].path), lowerQuery)
                      \/ Includes(ToLowerCase(es[i].metadata.summary), lowerQuery)}
       IN Return(ToResults(SortByCreated(Pick(es, keep))))

searchFiles(f, keys, query) ==
  IF Falsy(query) \/ query.t # "string"
  THEN Throw("Query parameter must be a non-empty string")
  ELSE LET lowerQuery == ToLowerCase(query.s)
           es == Entries(f, keys)
           keep == {i \in 1..Len(es) :
                      \/ Includes(ToLowerCase(BaseName(es[i].path)), lowerQuery)
                      \/ Includes(ToLowerCase(es[i].metadata.summary), lowerQuery)}
       IN Return(ToResults(SortByCreated(Pick(es, keep))))

\* the default of get_recent_files: 24 hours, one day
DefaultHours == JsNumber(1)

\* args.hours || 24
HoursOrDefault(hours) == IF Falsy(hours) THEN DefaultHours ELSE hours

\* the switch of the request handler for the tools that answer at once; args
\* is undefined when the request carries no arguments, and reading a
\* property of it throws a TypeError
Dispatch(f, keys, name, args, now) ==
  CASE name = "get_all_files" -> getAllFiles(f, keys)
    [] name = "get_files_by_tag" ->
         IF args.present THEN getFilesByTag(f, keys, args.tag)
         ELSE Throw("Cannot read properties of undefined")
    [] name = "get_recent_files" ->
         IF args.present THEN getRecentFiles(f, keys, HoursOrDefault(args.hours), now)
         ELSE Throw("Cannot read properties of undefined")
    [] name = "search_files" ->
         IF args.present THEN searchFiles(f, keys, args.query)
         ELSE Throw("Cannot read properties of undefined")
    [] OTHER -> Throw("Unknown tool")

\* variant of Answer: a failure is answered like an empty list
AnswerSwallowing(f, keys, name, args, now) ==
  LET r == Dispatch(f, keys, name, args, now)
  IN [kind |-> "list",
      text |-> "", count |-> r.count, files |-> r.files,
      name |-> name, args |-> args, now |-> now]

\* the try and the catch of the request handler: the payload of the answer
Answer(f, keys, name, args, now) ==
  LET r == Dispatch(f, keys, name, args, now)
  IN [kind |-> IF r.kind = "throw" THEN "error" ELSE "list",
      text |-> r.message, count |-> r.count, files |-> r.files,
      name |-> name, args |-> args, now |-> now]

\* a tools/call request for one of the list operations, or for a tool the
\* server does not have, arrives at time now and is answered
CallTool(name, args, now) ==
  /\ alive
  /\ phase = "watching"
  /\ response' = Answer(files, fileKeys, name, args, now)
  /\ UNCHANGED <<phase, alive, files, fileKeys, isInitializing, saveRetryCount,
                 handlers, ready, refresh, timers, disk, watched, doc, clock, ignored>>

\* "/w/a.md", "/w/Api.md", "/w/src/x.ts" in the order they were tracked
QueryPathSeq ==
  << <<47, 119, 47, 97, 46, 109, 100>>,
     <<47, 119, 47, 65, 112, 105, 46, 109, 100>>,
     <<47, 119, 47, 115, 114, 99, 47, 120, 46, 116, 115>> >>
QueryPaths == {QueryPathSeq[k] : k \in 1..Len(QueryPathSeq)}

\* what they held when they were tracked: "# A", "# todo api", "// A b"
QueryBytes ==
  << <<35, 32, 65>>,
     <<35, 32, 116, 111, 100, 111, 32, 97, 112, 105>>,
     <<47, 47, 32, 65, 32, 98>> >>

\* the days on which a tracked file may have been born, and the query times
CreatedDays == {19998, 19999, 20000}
Nows == {20000}

\* the index after the first n of them have been tracked, born on the days c
QueryIndex(n, c) ==
  [p \in {QueryPathSeq[k] : k \in 1..n} |->
     LET k == CHOOSE k \in 1..n : QueryPathSeq[k] = p
     IN NewRecord(c[k], Utf8ToString(QueryBytes[k]), p)]

\* the files now: the first has been deleted, the others are as they were
QueryDisk ==
  [p \in QueryPaths |->
     LET k == CHOOSE k \in 1..Len(QueryPathSeq) : QueryPathSeq[k] = p
     IN IF k = 1 THEN NoFile
        ELSE [present |-> TRUE, birth |-> 19998,
              size |-> Len(QueryBytes[k]), bytes |-> QueryBytes[k]]]

\* argument values of the requests: tags "md", "docs", "api", "doc", "";
\* hours -24, 0, 24, 48, 2400480024, "24"; queries "a", "API", "src", ".MD", ""
TagArgs ==
  { JsString(<<109, 100>>), JsString(<<100, 111, 99, 115>>), JsString(<<97, 112, 105>>), JsString(<<100, 111, 99>>),
    JsString(<<>>), JsNumber(5), JsUndefined }
HoursArgs ==
  { JsNumber(-1), JsNumber(0), JsNumber(1), JsNumber(2), JsNumber(100020001),
    JsString(<<50, 52>>), JsUndefined }
QueryArgs ==
  { JsString(<<97>>), JsString(<<65, 80, 73>>), JsString(<<115, 114, 99>>), JsString(<<46, 77, 68>>),
    JsString(<<>>), JsNumber(7), JsUndefined }

\* request.params.arguments: absent, or an object with some of tag, hours, query
NoArgs == [present |-> FALSE, tag |-> JsUndefined, hours |-> JsUndefined, query |-> JsUndefined]
ArgsOf(tag, hours, query) == [present |-> TRUE, tag |-> tag, hours |-> hours, query |-> query]

\* request.params of the requests: the four list tools, each without
\* arguments and with values of its own argument, and a name the server does
\* not know
Requests ==
  {[name |-> "get_all_files", args |-> a] :
     a \in {NoArgs, ArgsOf(JsUndefined, JsUndefined, JsUndefined)}}
    \cup {[name |-> "get_files_by_tag", args |-> a] :
            a \in {NoArgs} \cup {ArgsOf(x, JsUndefined, JsUndefined) : x \in TagArgs}}
    \cup {[name |-> "get_recent_files", args |-> a] :
            a \in {NoArgs} \cup {ArgsOf(JsUndefined, x, JsUndefined) : x \in HoursArgs}}
    \cup {[name |-> "search_files", args |-> a] :
            a \in {NoArgs} \cup {ArgsOf(JsUndefined, JsUndefined, x) : x \in QueryArgs}}
    \cup {[name |-> "no_such_tool", args |-> NoArgs]}

\* the server after its initial scan with the first n query paths tracked
InitQuery ==
  /\ phase = "watching"
  /\ alive = TRUE
  /\ \E n \in 0..Len(QueryPathSeq) : \E c \in [1..n -> CreatedDays] :
        files = QueryIndex(n, c) /\ fileKeys = SubSeq(QueryPathSeq, 1, n)
  /\ isInitializing = FALSE
  /\ saveRetryCount = 0
  /\ handlers = [h \in 1..MaxHandlers |-> IdleHandler]
  /\ ready = [pc |-> "done", snap |-> NoSnap]
  /\ refresh = IdleRefreshOver(QueryPaths)
  /\ timers = [t \in 1..MaxTimers |-> IdleTimer]
  /\ response = NoResponse
  /\ disk = QueryDisk
  /\ watched = QueryPaths \ {QueryPathSeq[1]}
  /\ doc = NoDoc
  /\ clock = 0
  /\ ignored = loadIgnorePatterns(QueryDisk)

Query == \E req \in Requests, now \in Nows : CallTool(req.name, req.args, now)

\* tools/call requests of all six kinds while the watcher is quiet
NextQuery == Query \/ Refresh

SpecQuery == InitQuery /\ [][NextQuery]_vars

(***************************************************************************)
(* The ignore files and the watcher                                        *)
(***************************************************************************)
\* "/w/_timepon.yaml" and a backup of it made by an earlier load
yamlPath == <<47, 119, 47, 95, 116, 105, 109, 101, 112, 111, 110, 46, 121, 97, 109, 108>>
backupPath == <<47, 119, 47, 95, 116, 105, 109, 101, 112, 111, 110, 46, 121, 97, 109, 108, 46, 98, 97, 99, 107, 117, 112, 46, 53>>

\* files of the workspace in the runs with ignore files: "/w/dist/out.js",
\* "/w/distribution/out.js", "/w/dir/b.log", "/w/a.md"
IgnoreWorkspace ==
  { <<47, 119, 47, 100, 105, 115, 116, 47, 111, 117, 116, 46, 106, 115>>, <<47, 119, 47, 100, 105, 115, 116, 114, 105, 98, 117, 116, 105, 111, 110, 47, 111, 117, 116, 46, 106, 115>>, <<47, 119, 47, 100, 105, 114, 47, 98, 46, 108, 111, 103>>, <<47, 119, 47, 97, 46, 109, 100>> }

\* what an ignore file may hold: "dist/", "*.log", a comment, a blank line
\* and two padded patterns with a carriage return, "!_timepon.yaml" with
\* "/a.md", "dist" with "a.?d"; or nothing
IgnoreContents ==
  { <<>>,
    <<100, 105, 115, 116, 47, 10>>,
    <<42, 46, 108, 111, 103, 10>>,
    <<35, 32, 98, 117, 105, 108, 100, 10, 10, 32, 32, 100, 105, 115, 116, 47, 32, 13, 10, 42, 46, 108, 111, 103>>,
    <<33, 95, 116, 105, 109, 101, 112, 111, 110, 46, 121, 97, 109, 108, 10, 47, 97, 46, 109, 100>>,
    <<100, 105, 115, 116, 10, 97, 46, 63, 100, 10>> }

\* an ignore file on disk: missing (or unreadable), or holding one of the
\* contents
IgnoreFiles ==
  {NoFile} \cup {[present |-> TRUE, birth |-> 0, size |-> Len(c), bytes |-> c] :
                   c \in IgnoreContents}

\* .tponignore and .gitignore together: any .tponignore without a
\* .gitignore, and a .gitignore holding "*.log" beside a .tponignore that is
\* missing or holds "dist/"
IgnoreFilePairs ==
  {<<t, NoFile>> : t \in IgnoreFiles}
    \cup {<<t, [present |-> TRUE, birth |-> 0, size |-> 6, bytes |-> <<42, 46, 108, 111, 103, 10>>]>> :
            t \in {NoFile, [present |-> TRUE, birth |-> 0, size |-> 6, bytes |-> <<100, 105, 115, 116, 47, 10>>]}}

\* the workspace with the two ignore files t and g, the document and a backup
IgnoreDisk(t, g) ==
  [p \in IgnoreWorkspace \cup {tponignorePath, gitignorePath, yamlPath, backupPath} |->
     IF p = tponignorePath THEN t
     ELSE IF p = gitignorePath THEN g
     ELSE [present |-> TRUE, birth |-> 0, size |-> Len(BytesHeading), bytes |-> BytesHeading]]

\* the server after loadMetadata, before startWatching, in a workspace where
\* an earlier run has left the document (persisted from an empty index) and
\* a backup; the entries of disk for these two tell only that the files are
\* there
InitIgnore ==
  /\ phase = "loaded"
  /\ alive = TRUE
  /\ files = <<>>
  /\ fileKeys = <<>>
  /\ isInitializing = FALSE
  /\ saveRetryCount = 0
  /\ handlers = [h \in 1..MaxHandlers |-> IdleHandler]
  /\ ready = IdleReady
  /\ refresh = IdleRefreshOver(DOMAIN IgnoreDisk(NoFile, NoFile))
  /\ timers = [t \in 1..MaxTimers |-> IdleTimer]
  /\ response = NoResponse
  /\ \E tg \in IgnoreFilePairs : disk = IgnoreDisk(tg[1], tg[2])
  /\ watched = {}
  /\ doc = buildFileTree(<<>>)
  /\ clock = 0
  /\ ignored = <<>>

\* the watcher over every file of the workspace
WatcherOverDisk ==
  \/ \E p \in DOMAIN disk : AddEvent(p)
  \/ \E h \in 1..MaxHandlers, ok \in BOOLEAN : StatDone(h, ok)
  \/ \E h \in 1..MaxHandlers, ok \in BOOLEAN : ReadDone(h, ok)
  \/ Ready

\* start of the watcher and the initial scan, on an unchanging disk
NextIgnore == startWatching \/ WatcherOverDisk \/ WriteOk

SpecIgnore == InitIgnore /\ [][NextIgnore]_vars

(***************************************************************************)
(* Classification and extraction over many kinds of file                   *)
(***************************************************************************)
\* isBinary(buffer, filePath) as readFileContent calls it on the bytes it has
\* read; the outcome is kept in response
Classify(p) ==
  /\ alive
  /\ phase = "watching"
  /\ disk[p].present
  /\ disk[p].size <= MAX_FILE_SIZE
  /\ response' = [kind |-> "classified", path |-> p, buffer |-> disk[p].bytes,
                  binary |-> isBinary(disk[p].bytes, p)]
  /\ UNCHANGED <<phase, alive, files, fileKeys, isInitializing, saveRetryCount,
                 handlers, ready, refresh, timers, disk, watched, doc, clock, ignored>>

\* paths: "/w/a.md", "/w/README.md", "/w/x.ts", "/w/c.json", "/w/x.png",
\* "/w/X.PNG", "/w/n.xyz", "/w/data", a name of 81 characters without
\* extension, and an extension of 77 characters
ExtractPaths ==
  { PathA, <<47, 119, 47, 82, 69, 65, 68, 77, 69, 46, 109, 100>>, <<47, 119, 47, 120, 46, 116, 115>>, <<47, 119, 47, 99, 46, 106, 115, 111, 110>>, <<47, 119, 47, 120, 46, 112, 110, 103>>, <<47, 119, 47, 88, 46, 80, 78, 71>>,
    <<47, 119, 47, 110, 46, 120, 121, 122>>, <<47, 119, 47, 100, 97, 116, 97>>,
    <<47, 119, 47>> \o [i \in 1..81 |-> 110],
    <<47, 119, 47, 101, 46>> \o [i \in 1..76 |-> 120] }

\* buffers: empty; "# A"; a line feed; the PNG signature; "PKA" and "PKAA";
\* ten bytes of which three, and of which four, are NUL; ten bytes of tabs,
\* line feeds, carriage returns and letters; 600 bytes whose first 512 hold
\* 153, and 154, NUL bytes; a line of 100 letters; a heading; a line naming
\* all four keyword groups; a line naming two of them; a comment followed
\* by code; an indented comment; code followed by a '#' comment; a comment
\* of 100 letters
ExtractBuffers ==
  { <<>>, BytesHeading, <<10>>, <<137, 80, 78, 71>>, <<80, 75, 65>>, <<80, 75, 65, 65>>,
    [i \in 1..10 |-> IF i <= 3 THEN 0 ELSE 65],
    [i \in 1..10 |-> IF i <= 4 THEN 0 ELSE 65],
    <<9, 10, 13, 9, 10, 13, 9, 65, 65, 65>>,
    [i \in 1..600 |-> IF i <= 153 \/ i > 512 THEN 0 ELSE 65],
    [i \in 1..600 |-> IF i <= 154 THEN 0 ELSE 65],
    [i \in 1..100 |-> 97],
    <<35, 32, 84, 105, 109, 101, 112, 111, 110>>,
    <<84, 79, 68, 79, 58, 32, 116, 104, 101, 32, 65, 80, 73, 44, 32, 105, 116, 115, 32, 83, 99, 104, 101, 109, 97, 32, 97, 110, 100, 32, 116, 104, 101, 32, 100, 101, 115, 105, 103, 110>>,
    <<100, 101, 115, 105, 103, 110, 32, 111, 102, 32, 97, 32, 116, 97, 115, 107>>,
    <<47, 47, 32, 65, 80, 73, 32, 101, 110, 100, 112, 111, 105, 110, 116, 32, 100, 101, 102, 105, 110, 105, 116, 105, 111, 110, 115, 10, 101, 120, 112, 111, 114, 116, 32, 99, 108, 97, 115, 115, 32, 65, 112, 105, 83, 101, 114, 118, 105, 99, 101, 32, 123, 125>>,
    <<32, 32, 47, 47, 32, 105, 110, 100, 101, 110, 116, 101, 100, 10, 108, 101, 116, 32, 120>>,
    <<108, 101, 116, 32, 120, 10, 10, 35, 32, 32, 110, 111, 116, 101>>,
    <<47, 47, 32>> \o [i \in 1..100 |-> 98] }

\* what the one file of the workspace may be: a file holding one of the
\* buffers, or a file of exactly MAX_FILE_SIZE bytes, or one byte more,
\* that starts with "# B"
ExtractKinds ==
  {[size |-> Len(b), bytes |-> b] : b \in ExtractBuffers}
    \cup {[size |-> MAX_FILE_SIZE, bytes |-> BytesLarge],
          [size |-> MAX_FILE_SIZE + 1, bytes |-> BytesLarge]}

\* the server at the start of its initial scan of a workspace of one file
InitExtract ==
  /\ phase = "watching"
  /\ alive = TRUE
  /\ files = <<>>
  /\ fileKeys = <<>>
  /\ isInitializing = TRUE
  /\ saveRetryCount = 0
  /\ handlers = [h \in 1..MaxHandlers |-> IdleHandler]
  /\ ready = IdleReady
  /\ \E p \in ExtractPaths, k \in ExtractKinds :
       /\ disk = [q \in {p} |-> [present |-> TRUE, birth |-> 1, size |-> k.size, bytes |-> k.bytes]]
       /\ refresh = IdleRefreshOver({p})
  /\ timers = [t \in 1..MaxTimers |-> IdleTimer]
  /\ response = NoResponse
  /\ watched = {}
  /\ doc = NoDoc
  /\ clock = 1
  /\ ignored = builtInPatterns

\* the initial scan, refresh_metadata requests and classification of the file
NextExtract ==
  \/ WatcherOverDisk
  \/ WriteOk
  \/ Refresh
  \/ \E p \in DOMAIN disk : Classify(p)

SpecExtract == InitExtract /\ [][NextExtract]_vars

(***************************************************************************)
(* The document as text: what saveMetadata writes                          *)
(***************************************************************************)
\* the workspace root "/w"
workspaceRoot == <<47, 119>>

\* instants are counted in seconds after 10:00:00 on 4 November 2026, local
\* time being UTC; the formatters below are defined for instants of that day
\* String(n) for a natural number
RECURSIVE Decimal(_)
Decimal(n) == IF n < 10 THEN <<48 + n>> ELSE Append(Decimal(n \div 10), 48 + (n % 10))

TwoDigits(n) == <<48 + (n \div 10), 48 + (n % 10)>>

\* date.toISOString()
toISOString(t) ==
  <<50, 48, 50, 54, 45, 49, 49, 45, 48, 52, 84>> \o TwoDigits(10 + (t \div 3600)) \o <<58>> \o TwoDigits((t % 3600) \div 60)
    \o <<58>> \o TwoDigits(t % 60) \o <<46, 48, 48, 48, 90>>

\* getFileIcon(filename): the strings of iconMap as the source file holds them
getFileIcon(filename) ==
  LET ext == ToLowerCase(ExtName(filename)) IN
     IF ext = <<46, 109, 100>> THEN <<63743, 252, 236, 209>>
     ELSE IF ext = <<46, 116, 120, 116>> THEN <<63743, 252, 236, 249>>
     ELSE IF ext = <<46, 106, 115>> THEN <<8218, 246, 176>>
     ELSE IF ext = <<46, 116, 115>> THEN <<63743, 252, 238, 8721>>
     ELSE IF ext = <<46, 112, 121>> THEN <<63743, 252, 234, 231>>
     ELSE IF ext = <<46, 106, 115, 111, 110>> THEN <<63743, 252, 236, 227>>
     ELSE IF ext = <<46, 121, 97, 109, 108>> THEN <<8218, 246, 244, 212, 8719, 232>>
     ELSE IF ext = <<46, 121, 109, 108>> THEN <<8218, 246, 244, 212, 8719, 232>>
     ELSE IF ext = <<46, 104, 116, 109, 108>> THEN <<63743, 252, 229, 234>>
     ELSE IF ext = <<46, 99, 115, 115>> THEN <<63743, 252, 233, 174>>
     ELSE IF ext = <<46, 115, 104>> THEN <<63743, 252, 238, 223>>
     ELSE IF ext = <<46, 112, 115, 49>> THEN <<63743, 252, 238, 223>>
     ELSE IF ext = <<46, 98, 97, 116>> THEN <<63743, 252, 238, 223>>
     ELSE <<63743, 252, 236, 209>>

\* getRelativeTime(isoDate) at the instant now
getRelativeTime(created, now) ==
  LET diffMins == (now - created) \div 60
      diffHours == (now - created) \div 3600
      diffDays == (now - created) \div 86400
  IN IF created < 0 THEN <<78, 97, 78, 119, 32, 97, 103, 111>>
     ELSE IF diffMins < 1 THEN <<106, 117, 115, 116, 32, 110, 111, 119>>
     ELSE IF diffMins < 60 THEN Decimal(diffMins) \o <<109, 32, 97, 103, 111>>
     ELSE IF diffHours < 24 THEN Decimal(diffHours) \o <<104, 32, 97, 103, 111>>
     ELSE IF diffDays < 7 THEN Decimal(diffDays) \o <<100, 32, 97, 103, 111>>
     ELSE Decimal(diffDays \div 7) \o <<119, 32, 97, 103, 111>>

\* formatDateTime(isoDate) at the instant now: day, month and year, then hour
\* and minute, then the relative time
formatDateTime(created, now) ==
  IF created < 0
  THEN <<73, 110, 118, 97, 108, 105, 100, 32, 68, 97, 116, 101, 32, 73, 110, 118, 97, 108, 105, 100, 32, 68, 97, 116, 101, 32, 62, 62, 40>> \o getRelativeTime(created, now) \o <<41, 60, 60>>
  ELSE
  <<48, 52, 32, 78, 111, 118, 32, 50, 48, 50, 54, 32>> \o TwoDigits(10 + (created \div 3600)) \o <<58>>
    \o TwoDigits((created % 3600) \div 60)
    \o <<32, 62, 62, 40>> \o getRelativeTime(created, now) \o <<41, 60, 60>>

\* s.split(c)
SplitOn(s, c) ==
  LET at == {i \in 1..Len(s) : s[i] = c}
      cut(k) == IF k = 0 THEN 0
                ELSE IF k > Cardinality(at) THEN Len(s) + 1
                ELSE CHOOSE i \in at : Cardinality({j \in at : j < i}) = k - 1
  IN [k \in 1..(Cardinality(at) + 1) |-> SubSeq(s, cut(k - 1) + 1, cut(k) - 1)]

\* path.relative(this.workspaceRoot, filePath).split(path.sep) for a path
\* below the workspace root
RelativeParts(filePath) == SplitOn(SliceFrom(filePath, Len(workspaceRoot) + 1), 47)

\* a.localeCompare(b) < 0 for names of lower-case letters, digits and dots
LexLess(a, b) ==
  \E i \in 1..(Len(a) + 1) :
    /\ i <= Len(b)
    /\ \A j \in 1..(i - 1) : a[j] = b[j]
    /\ i = Len(a) + 1 \/ a[i] < b[i]

\* the blocks one after the other, halving the sequence of blocks
RECURSIVE Flatten(_)
Flatten(blocks) ==
  IF blocks = <<>> THEN <<>>
  ELSE IF Len(blocks) = 1 THEN blocks[1]
  ELSE Flatten(SubSeq(blocks, 1, Len(blocks) \div 2))
         \o Flatten(SubSeq(blocks, (Len(blocks) \div 2) + 1, Len(blocks)))

\* '  '.repeat(level)
IndentOf(level) == [i \in 1..(2 * level) |-> 32]

\* the entries of buildFileTree's sortedEntries, newest first, each with the
\* parts of its relative path
TreeEntries(d) ==
  LET ps == DOMAIN d.files
      order == CHOOSE s \in [1..Cardinality(ps) -> ps] :
                 \A i, j \in 1..Cardinality(ps) :
                   i < j => s[i] # s[j] /\ d.files[s[i]].created >= d.files[s[j]].created
  IN [k \in 1..Cardinality(ps) |-> [parts |-> RelativeParts(order[k]), value |-> d.files[order[k]]]]

\* the values of the tree: an object is its entries in insertion order, each
\* a key and a value; a string, a date or an array is a scalar
Obj(entries) == [t |-> "obj", v |-> entries]
Val(x) == [t |-> "val", v |-> x]
Undefined == [t |-> "undefined", v |-> <<>>]

\* key in obj
HasKey(obj, key) == \E i \in 1..Len(obj.v) : obj.v[i].key = key

\* obj[key]
GetKey(obj, key) ==
  IF HasKey(obj, key)
  THEN obj.v[CHOOSE i \in 1..Len(obj.v) : obj.v[i].key = key].val
  ELSE Undefined

\* obj[key] = val: a key the object has keeps its place, a new key goes last
SetKey(obj, key, val) ==
  IF HasKey(obj, key)
  THEN Obj([i \in 1..Len(obj.v) |->
              IF obj.v[i].key = key THEN [key |-> key, val |-> val] ELSE obj.v[i]])
  ELSE Obj(Append(obj.v, [key |-> key, val |-> val]))

\* the leaf object of buildFileTree
LeafOf(metadata) ==
  Obj(<< [key |-> <<99, 114, 101, 97, 116, 101, 100>>, val |-> Val(metadata.created)],
         [key |-> <<115, 117, 109, 109, 97, 114, 121>>, val |-> Val(metadata.summary)],
         [key |-> <<116, 97, 103, 115>>, val |-> Val(metadata.tags)] >>)

\* the inner loop of buildFileTree from the object current on: the last part
\* is set to the leaf, whatever current holds under it; any other part is
\* entered, after being set to {} when current holds nothing under it (a part
\* under which current holds a scalar does not occur in the workspaces
\* modelled here)
RECURSIVE PutPath(_, _, _)
PutPath(current, parts, leaf) ==
  IF Len(parts) = 1
  THEN SetKey(current, parts[1], leaf)
  ELSE LET at == GetKey(current, parts[1])
       IN SetKey(current, parts[1],
                 PutPath(IF at.t = "obj" THEN at ELSE Obj(<<>>), Tail(parts), leaf))

\* the outer loop of buildFileTree over the entries es
RECURSIVE PutAll(_, _)
PutAll(obj, es) ==
  IF Len(es) = 0 THEN obj
  ELSE PutAll(PutPath(obj, es[1].parts, LeafOf(es[1].value)), Tail(es))

\* tree.files as buildFileTree leaves it
TreeFiles(d) == PutAll(Obj(<<>>), TreeEntries(d))

\* value && typeof value === 'object' && 'created' in value
IsFileValue(value) == value.t = "obj" /\ HasKey(value, <<99, 114, 101, 97, 116, 101, 100>>)

\* new Date(value.created) as an instant, -1 standing for an Invalid Date
DateOfValue(value) ==
  LET c == GetKey(value, <<99, 114, 101, 97, 116, 101, 100>>) IN IF c.t = "val" THEN c.v ELSE -1

\* `${value.summary}`
SummaryText(value) ==
  LET s == GetKey(value, <<115, 117, 109, 109, 97, 114, 121>>)
  IN IF s.t = "val" THEN s.v
     ELSE IF s.t = "undefined" THEN <<117, 110, 100, 101, 102, 105, 110, 101, 100>>
     ELSE <<91, 111, 98, 106, 101, 99, 116, 32, 79, 98, 106, 101, 99, 116, 93>>

\* the text between the brackets of the tags line
TagsText(value) ==
  LET g == GetKey(value, <<116, 97, 103, 115>>)
  IN IF g.t = "val"
     THEN Flatten([i \in 1..Len(g.v) |-> IF i = 1 THEN g.v[i] ELSE <<44, 32>> \o g.v[i]])
     ELSE <<>>

\* the lines of a file entry
FileEntryLines(key, value, indent, now) ==
  << indent \o <<35, 32>> \o getFileIcon(key) \o <<32>> \o key \o <<32, 32, 62, 62, 32>>
       \o getRelativeTime(DateOfValue(value), now) \o <<32, 60, 60>>,
     indent \o key \o <<58>>,
     indent \o <<32, 32, 99, 114, 101, 97, 116, 101, 100, 58, 32>> \o formatDateTime(DateOfValue(value), now),
     indent \o <<32, 32, 115, 117, 109, 109, 97, 114, 121, 58, 32>> \o SummaryText(value),
     indent \o <<32, 32, 116, 97, 103, 115, 58, 32, 91>> \o TagsText(value) \o <<93>> >>

\* formatTreeLevel(obj, level, lines): the entries holding an object with a
\* key created are the files, the others the directories; the directories
\* come first, sorted by localeCompare, then the files, sorted by the
\* difference of their dates (a difference with an Invalid Date is NaN and
\* leaves the two as they are; Array.prototype.sort is stable); a blank line
\* goes before every entry but the first
RECURSIVE formatTreeLevel(_, _, _)
formatTreeLevel(obj, level, now) ==
  LET indent == IndentOf(level)
      fs == SelectSeq(obj.v, LAMBDA e : IsFileValue(e.val))
      ds == SelectSeq(obj.v, LAMBDA e : ~IsFileValue(e.val))
      newer(i, j) ==
        IF DateOfValue(fs[i].val) >= 0 /\ DateOfValue(fs[j].val) >= 0
             /\ DateOfValue(fs[i].val) # DateOfValue(fs[j].val)
        THEN DateOfValue(fs[i].val) > DateOfValue(fs[j].val)
        ELSE i < j
      leaves == [k \in 1..Len(fs) |->
                   fs[CHOOSE i \in 1..Len(fs) :
                        Cardinality({j \in 1..Len(fs) : newer(j, i)}) = k - 1]]
      dirs == [k \in 1..Len(ds) |->
                 ds[CHOOSE i \in 1..Len(ds) :
                      Cardinality({j \in 1..Len(ds) : LexLess(ds[j].key, ds[i].key)}) = k - 1]]
      block(k) ==
        IF k <= Len(dirs)
        THEN << indent \o <<35, 32, 61, 61, 61, 32>> \o <<63743, 252, 236, 197>> \o <<32>> \o dirs[k].key,
                indent \o dirs[k].key \o <<58>> >>
               \o (IF dirs[k].val.t = "obj"
                   THEN formatTreeLevel(dirs[k].val, level + 1, now)
                   ELSE <<>>)
        ELSE FileEntryLines(leaves[k - Len(dirs)].key, leaves[k - Len(dirs)].val, indent, now)
  IN Flatten([k \in 1..(Len(dirs) + Len(leaves)) |->
                IF k > 1 THEN <<<<>>>> \o block(k) ELSE block(k)])

\* formatYamlWithSpacing(tree), as lines, for the tree built at the instant now
formatYamlWithSpacing(d, now) ==
  << <<119, 111, 114, 107, 115, 112, 97, 99, 101, 58, 32>> \o workspaceRoot,
     <<108, 97, 115, 116, 85, 112, 100, 97, 116, 101, 100, 58, 32, 39>> \o toISOString(now) \o <<39>>,
     <<116, 111, 116, 97, 108, 70, 105, 108, 101, 115, 58, 32>> \o Decimal(d.totalFiles),
     <<>>,
     <<102, 105, 108, 101, 115, 58>>,
     <<>>,
     <<32, 32, 35, 32, 61, 61, 61, 32, 63743, 252, 232, 8224, 32, 82, 111, 111, 116>>,
     <<32, 32, 82, 111, 111, 116, 58>> >>
    \o formatTreeLevel(TreeFiles(d), 2, now)

\* the rule of the header and the footer
RuleLine == [i \in 1..74 |-> 61]

\* the header of saveMetadata, as lines
HeaderLines(d, now) ==
  << <<84, 73, 77, 69, 80, 79, 78, 32, 70, 73, 76, 69, 32, 84, 82, 65, 67, 75, 73, 78, 71>>,
     workspaceRoot,
     RuleLine,
     <<76, 97, 115, 116, 32, 85, 112, 100, 97, 116, 101, 100, 58, 32, 32, 32, 32, 32, 87, 101, 100, 110, 101, 115, 100, 97, 121, 32, 52, 32, 78, 111, 118, 101, 109, 98, 101, 114, 32, 50, 48, 50, 54, 32, 97, 116, 32>> \o TwoDigits(10 + (now \div 3600))
       \o <<58>> \o TwoDigits((now % 3600) \div 60) \o <<58>> \o TwoDigits(now % 60),
     <<70, 105, 108, 101, 115, 32, 84, 114, 97, 99, 107, 101, 100, 58, 32, 32, 32, 32>> \o Decimal(d.totalFiles),
     <<>>,
     <<84, 73, 80, 58, 32, 85, 115, 101, 32, 99, 111, 100, 101, 32, 102, 111, 108, 100, 105, 110, 103, 32, 116, 111, 32, 99, 111, 108, 108, 97, 112, 115, 101, 32, 102, 111, 108, 100, 101, 114, 115, 32, 40, 99, 108, 105, 99, 107, 32, 97, 114, 114, 111, 119, 115, 32, 98, 121, 32, 108, 105, 110, 101, 32, 110, 117, 109, 98, 101, 114, 115, 41>>,
     <<>>,
     <<67, 116, 114, 108, 43, 75, 32, 67, 116, 114, 108, 43, 48, 32, 61, 32, 102, 111, 108, 100, 32, 97, 108, 108, 32, 124, 32, 67, 116, 114, 108, 43, 75, 32, 67, 116, 114, 108, 43, 74, 32, 61, 32, 117, 110, 102, 111, 108, 100, 32, 97, 108, 108>>,
     RuleLine,
     <<>> >>

\* the footer of saveMetadata, as lines
FooterLines == << RuleLine, <<69, 110, 100, 32, 111, 102, 32, 84, 105, 109, 101, 112, 111, 110, 32, 116, 114, 97, 99, 107, 105, 110, 103, 32, 100, 97, 116, 97>>, RuleLine, <<>> >>

\* fullContent of saveMetadata, as the lines between its line feeds
fullContent(d, now) == HeaderLines(d, now) \o formatYamlWithSpacing(d, now) \o FooterLines

(***************************************************************************)
(* YAML.parse, on the part of YAML the documents are made of: comments,    *)
(* block mappings, plain and single-quoted scalars and flow sequences of   *)
(* plain scalars.  A parsed value is a node: error (parse throws), null,   *)
(* str (a scalar; numbers and booleans are not told apart from strings,    *)
(* neither being an object), seq or map.                                   *)
(***************************************************************************)
ErrorNode == [kind |-> "error", text |-> <<>>, keys |-> <<>>, items |-> <<>>]
NullNode == [kind |-> "null", text |-> <<>>, keys |-> <<>>, items |-> <<>>]
StrNode(s) == [kind |-> "str", text |-> s, keys |-> <<>>, items |-> <<>>]
SeqNode(items) == [kind |-> "seq", text |-> <<>>, keys |-> <<>>, items |-> items]
MapNode(keys, items) == [kind |-> "map", text |-> <<>>, keys |-> keys, items |-> items]

\* number of leading spaces of a line
Indent(l) == LeadingRun(l, {32})

\* a line that is neither blank nor a comment
IsContent(l) == NonBlank(l) /\ SliceFrom(l, Indent(l))[1] # 35

\* position of the ':' that ends the implicit key of a line: the first one
\* followed by a space or by the end of the line; 0 when there is none
KeySep(l) ==
  LET at == {i \in 1..Len(l) : l[i] = 58 /\ (i = Len(l) \/ l[i + 1] = 32)}
  IN IF at = {} THEN 0 ELSE CHOOSE i \in at : \A j \in at : i <= j

KeyOf(l) == Trim(SubSeq(l, 1, KeySep(l) - 1))
RestOf(l) == Trim(SliceFrom(l, KeySep(l)))

\* a scalar or flow sequence written on one line
ParseValue(v) ==
  IF v[1] = 39
  THEN IF Len(v) >= 2 /\ v[Len(v)] = 39 THEN StrNode(SubSeq(v, 2, Len(v) - 1)) ELSE ErrorNode
  ELSE IF v[1] = 91
  THEN IF v[Len(v)] # 93 THEN ErrorNode
       ELSE IF Trim(SubSeq(v, 2, Len(v) - 1)) = <<>> THEN SeqNode(<<>>)
       ELSE LET parts == SplitOn(SubSeq(v, 2, Len(v) - 1), 44)
            IN SeqNode([i \in 1..Len(parts) |-> StrNode(Trim(parts[i]))])
  ELSE IF KeySep(v) # 0 THEN ErrorNode
  ELSE StrNode(v)

\* a block mapping from its content lines: the lines at the indentation
\* of the first are its entries, the more indented lines after an entry
\* are the value of that entry.  It is an error when a line is indented less
\* than the first, when an entry line has no key (a plain scalar that goes on
\* over several lines, or is followed by a key, is no implicit key), when an
\* entry has a value on its line and more indented lines below, when a key
\* occurs twice, and when a value is in error
RECURSIVE ParseBlock(_)
ParseBlock(ls) ==
  LET n == Indent(ls[1])
      heads == {i \in 1..Len(ls) : Indent(ls[i]) = n}
      hs == [k \in 1..Cardinality(heads) |->
               CHOOSE i \in heads : Cardinality({j \in heads : j < i}) = k - 1]
      last(k) == IF k = Len(hs) THEN Len(ls) ELSE hs[k + 1] - 1
      below(k) == SubSeq(ls, hs[k] + 1, last(k))
      value(k) == IF RestOf(ls[hs[k]]) # <<>> THEN ParseValue(RestOf(ls[hs[k]]))
                  ELSE IF below(k) = <<>> THEN NullNode
                  ELSE ParseBlock(below(k))
  IN IF \/ \E i \in 1..Len(ls) : Indent(ls[i]) < n
        \/ \E i \in heads : KeySep(ls[i]) = 0
        \/ \E k \in 1..Len(hs) : RestOf(ls[hs[k]]) # <<>> /\ below(k) # <<>>
        \/ \E j, k \in 1..Len(hs) : j # k /\ KeyOf(ls[hs[j]]) = KeyOf(ls[hs[k]])
        \/ \E k \in 1..Len(hs) : value(k).kind = "error"
     THEN ErrorNode
     ELSE MapNode([k \in 1..Len(hs) |-> KeyOf(ls[hs[k]])], [k \in 1..Len(hs) |-> value(k)])

\* YAML.parse(content), content given as its lines
YamlParse(lines) ==
  LET ls == SelectSeq(lines, IsContent)
  IN IF ls = <<>> THEN NullNode
     ELSE IF Len(ls) = 1 /\ KeySep(ls[1]) = 0 THEN ParseValue(Trim(ls[1]))
     ELSE ParseBlock(ls)

\* node[key] for a mapping node, NullNode standing for undefined
ItemOf(node, key) ==
  IF node.kind = "map" /\ \E k \in 1..Len(node.keys) : node.keys[k] = key
  THEN node.items[CHOOSE k \in 1..Len(node.keys) : node.keys[k] = key]
  ELSE NullNode

\* parsed.files
FilesOf(parsed) == ItemOf(parsed, <<102, 105, 108, 101, 115>>)

\* variant of LoadBranch: a document without valid files is treated as one
\* that does not parse
LoadBranchAlwaysBackup(parsed) ==
  IF parsed.kind \in {"error", "null", "str"} THEN "throw"
  ELSE IF FilesOf(parsed).kind \in {"null", "str"} THEN "throw"
  ELSE "adopt"

\* the branch loadMetadata takes on the parsed value: "throw" when it is
\* falsy or no object; "fresh" when its files are falsy or no object;
\* "adopt" otherwise
LoadBranch(parsed) ==
  IF parsed.kind \in {"error", "null", "str"} THEN "throw"
  ELSE IF FilesOf(parsed).kind \in {"null", "str"} THEN "fresh"
  ELSE "adopt"

IsDigits(s) == \A i \in 1..Len(s) : s[i] >= 48 /\ s[i] <= 57
Num2(s) == (s[1] - 48) * 10 + (s[2] - 48)

\* the time value of new Date(text) for a text written by toISOString; -1
\* stands for NaN, the time value of any other text (the texts written by
\* formatDateTime among them)
InstantOf(text) ==
  IF /\ Len(text) = 24
     /\ SubSeq(text, 1, 11) = <<50, 48, 50, 54, 45, 49, 49, 45, 48, 52, 84>>
     /\ SubSeq(text, 20, 24) = <<46, 48, 48, 48, 90>>
     /\ text[14] = 58 /\ text[17] = 58
     /\ IsDigits(SubSeq(text, 12, 13) \o SubSeq(text, 15, 16) \o SubSeq(text, 18, 19))
     /\ Num2(SubSeq(text, 12, 13)) >= 10
  THEN (Num2(SubSeq(text, 12, 13)) - 10) * 3600 + Num2(SubSeq(text, 15, 16)) * 60
         + Num2(SubSeq(text, 18, 19))
  ELSE -1

\* a value of the parsed document as a value of the index: a mapping of
\* created, summary and tags is a record of the index; any other value is
\* kept as its node
ValueOfNode(node) ==
  IF /\ node.kind = "map"
     /\ Len(node.keys) = 3
     /\ ItemOf(node, <<99, 114, 101, 97, 116, 101, 100>>).kind = "str"
     /\ ItemOf(node, <<115, 117, 109, 109, 97, 114, 121>>).kind = "str"
     /\ ItemOf(node, <<116, 97, 103, 115>>).kind = "seq"
  THEN [created |-> InstantOf(ItemOf(node, <<99, 114, 101, 97, 116, 101, 100>>).text),
        summary |-> ItemOf(node, <<115, 117, 109, 109, 97, 114, 121>>).text,
        tags |-> [i \in 1..Len(ItemOf(node, <<116, 97, 103, 115>>).items) |->
                    ItemOf(node, <<116, 97, 103, 115>>).items[i].text],
        stale |-> FALSE,
        staleReason |-> "none"]
  ELSE [node |-> node]

\* Object.keys of a parsed mapping or sequence
KeysOfNode(node) ==
  IF node.kind = "map" THEN node.keys
  ELSE [i \in 1..Len(node.items) |-> Decimal(i - 1)]

\* parsed.files as the files of the index
IndexOfNode(node) ==
  [k \in {KeysOfNode(node)[i] : i \in 1..Len(node.items)} |->
     ValueOfNode(node.items[CHOOSE i \in 1..Len(node.items) : KeysOfNode(node)[i] = k])]

(***************************************************************************)
(* loadMetadata with a document on disk, and restarts of the server        *)
(***************************************************************************)
\* the lines of the document on disk: those of a document written by
\* another hand, or those saveMetadata wrote for the snapshot
TextOf(d) == IF "lines" \in DOMAIN d THEN d.lines ELSE fullContent(d, clock)

\* the bytes of a text in UTF-8 (no surrogate pairs occur)
Utf8Encode(s) ==
  Flatten([i \in 1..Len(s) |->
    IF s[i] < 128 THEN <<s[i]>>
    ELSE IF s[i] < 2048 THEN <<192 + (s[i] \div 64), 128 + (s[i] % 64)>>
    ELSE <<224 + (s[i] \div 4096), 128 + ((s[i] \div 64) % 64), 128 + (s[i] % 64)>>])

\* lines.join('\n')
JoinLines(lines) ==
  Flatten([i \in 1..Len(lines) |-> IF i = 1 THEN lines[i] ELSE <<10>> \o lines[i]])

\* the bytes of the document on disk
DocumentBytes(d) == Utf8Encode(JoinLines(TextOf(d)))

\* loadMetadata when the document exists: fs.readFile settles, the content is
\* parsed and examined; a failure goes to the catch, which starts the copy
\* to the backup
loadMetadataRead(ok) ==
  /\ alive
  /\ phase = "constructed"
  /\ doc.exists
  /\ LET parsed == YamlParse(TextOf(doc))
         branch == IF ok THEN LoadBranch(parsed) ELSE "throw"
     IN /\ phase' = IF branch = "throw" THEN "backup" ELSE "loaded"
        /\ files' = IF branch = "adopt" THEN IndexOfNode(FilesOf(parsed))
                    ELSE IF branch = "fresh" THEN <<>> ELSE files
        /\ fileKeys' = IF branch = "adopt" THEN KeysOfNode(FilesOf(parsed))
                       ELSE IF branch = "fresh" THEN <<>> ELSE fileKeys
  /\ UNCHANGED <<alive, isInitializing, saveRetryCount, handlers, ready, refresh,
                 timers, response, disk, watched, doc, clock, ignored>>

\* fs.copyFile to the backup settles, its failure being caught; then the
\* index is reset.  Every backup goes to the one path backupPath, whose name
\* stands for that of the instant of the copy
BackupDone(ok) ==
  /\ alive
  /\ phase = "backup"
  /\ disk' = IF ok
             THEN [disk EXCEPT ![backupPath] =
                     [present |-> TRUE, birth |-> clock,
                      size |-> Len(DocumentBytes(doc)), bytes |-> DocumentBytes(doc)]]
             ELSE disk
  /\ files' = <<>>
  /\ fileKeys' = <<>>
  /\ phase' = "loaded"
  /\ UNCHANGED <<alive, isInitializing, saveRetryCount, handlers, ready, refresh,
                 timers, response, watched, doc, clock, ignored>>

\* the process ends, whatever it was doing, and the server is constructed
\* anew: its memory is that of the constructor, the disk is as it was
Restart ==
  /\ phase = "watching"
  /\ phase' = "constructed"
  /\ alive' = TRUE
  /\ files' = <<>>
  /\ fileKeys' = <<>>
  /\ isInitializing' = FALSE
  /\ saveRetryCount' = 0
  /\ handlers' = [h \in 1..MaxHandlers |-> IdleHandler]
  /\ ready' = IdleReady
  /\ refresh' = IdleRefreshOver(DOMAIN disk)
  /\ timers' = [t \in 1..MaxTimers |-> IdleTimer]
  /\ response' = NoResponse
  /\ watched' = {}
  /\ ignored' = <<>>
  /\ UNCHANGED <<disk, doc, clock>>

\* every value of the index is a record whose created is a date
IndexOfRecords(f) ==
  \A k \in DOMAIN f : "created" \in DOMAIN f[k] /\ f[k].created >= 0

\* "/w/dir/b.md"
PathDirB == <<47, 119, 47, 100, 105, 114, 47, 98, 46, 109, 100>>

\* the workspace of the runs with restarts: "/w/a.md" holding "# A", born at
\* instant 1, "/w/dir/b.md" holding "# A", born at instant 65, a
\* .tponignore holding "*.log", and no backup yet
LoadDisk ==
  [p \in {PathA, PathDirB, tponignorePath, backupPath} |->
     IF p = PathA THEN [present |-> TRUE, birth |-> 1, size |-> 3, bytes |-> BytesHeading]
     ELSE IF p = PathDirB THEN [present |-> TRUE, birth |-> 65, size |-> 3, bytes |-> BytesHeading]
     ELSE IF p = tponignorePath
     THEN [present |-> TRUE, birth |-> 0, size |-> 6, bytes |-> <<42, 46, 108, 111, 103, 10>>]
     ELSE NoFile]

\* a document written by another hand
Foreign(lines) == [exists |-> TRUE, totalFiles |-> 0, files |-> <<>>, lines |-> lines]

\* the index of the two files of the workspace
BothTracked ==
  [p \in {PathA, PathDirB} |->
     NewRecord(LoadDisk[p].birth, Utf8ToString(LoadDisk[p].bytes), p)]

\* documents found at start-up that the server has not written as they are:
\* an empty file; a scalar; an unterminated flow sequence; a value on the
\* line of a key with a mapping below; a flow sequence; a mapping without
\* files; files being a scalar; files without a value; the YAML part of the
\* document of BothTracked without header and footer; that document with the
\* header turned into comments and the footer cut; a mapping of files written
\* by hand whose record has four tags
ForeignDocs ==
  { Foreign(<< <<>> >>),
    Foreign(<< <<104, 101, 108, 108, 111>>, <<>> >>),
    Foreign(<< <<102, 105, 108, 101, 115, 58, 32, 91, 97, 44, 32, 98>>, <<>> >>),
    Foreign(<< <<102, 105, 108, 101, 115, 58, 32, 49>>, <<32, 32, 97, 58, 32, 50>>, <<>> >>),
    Foreign(<< <<91, 97, 44, 32, 98, 93>>, <<>> >>),
    Foreign(<< <<119, 111, 114, 107, 115, 112, 97, 99, 101, 58, 32, 47, 119>>, <<116, 111, 116, 97, 108, 70, 105, 108, 101, 115, 58, 32, 48>>, <<>> >>),
    Foreign(<< <<119, 111, 114, 107, 115, 112, 97, 99, 101, 58, 32, 47, 119>>, <<102, 105, 108, 101, 115, 58, 32, 110, 111, 110, 101>>, <<>> >>),
    Foreign(<< <<119, 111, 114, 107, 115, 112, 97, 99, 101, 58, 32, 47, 119>>, <<102, 105, 108, 101, 115, 58>>, <<>> >>),
    Foreign(formatYamlWithSpacing(buildFileTree(BothTracked), 130)),
    Foreign([i \in 1..11 |-> <<35, 32>> \o HeaderLines(buildFileTree(BothTracked), 130)[i]]
              \o formatYamlWithSpacing(buildFileTree(BothTracked), 130)),
    Foreign(<< <<102, 105, 108, 101, 115, 58>>,
               <<32, 32, 47, 119, 47, 97, 46, 109, 100, 58>>,
               <<32, 32, 32, 32, 99, 114, 101, 97, 116, 101, 100, 58, 32, 39, 50, 48, 50, 54, 45, 49, 49, 45, 48, 52, 84, 49, 48, 58, 48, 48, 58, 48, 49, 46, 48, 48, 48, 90, 39>>,
               <<32, 32, 32, 32, 115, 117, 109, 109, 97, 114, 121, 58, 32, 65>>,
               <<32, 32, 32, 32, 116, 97, 103, 115, 58, 32, 91, 109, 100, 44, 32, 100, 111, 99, 115, 44, 32, 116, 97, 115, 107, 115, 44, 32, 97, 112, 105, 93>>,
               <<>> >>) }

\* the server as constructed, at instant 130, in a workspace holding no
\* document or one of the documents above
InitLoad ==
  /\ phase = "constructed"
  /\ alive = TRUE
  /\ files = <<>>
  /\ fileKeys = <<>>
  /\ isInitializing = FALSE
  /\ saveRetryCount = 0
  /\ handlers = [h \in 1..MaxHandlers |-> IdleHandler]
  /\ ready = IdleReady
  /\ refresh = IdleRefreshOver(DOMAIN LoadDisk)
  /\ timers = [t \in 1..MaxTimers |-> IdleTimer]
  /\ response = NoResponse
  /\ disk = LoadDisk
  /\ watched = {}
  /\ doc \in {NoDoc} \cup ForeignDocs
  /\ clock = 130
  /\ ignored = <<>>

\* the watcher and the writes, followed from an index of records: what the
\* handlers make of values of another shape is not part of the model
WatcherOverRecords ==
  /\ IndexOfRecords(files)
  /\ WatcherOverDisk \/ WriteOk

\* start-up with and without a document, the initial scan, and restarts
NextLoad ==
  \/ loadMetadata
  \/ \E ok \in BOOLEAN : loadMetadataRead(ok)
  \/ \E ok \in BOOLEAN : BackupDone(ok)
  \/ startWatching
  \/ WatcherOverRecords
  \/ Restart

SpecLoad == InitLoad /\ [][NextLoad]_vars

(***************************************************************************)
(* refresh-all while the watcher reports files                             *)
(***************************************************************************)
\* the server right after startWatching in a workspace of two files
InitScanRefresh ==
  /\ phase = "watching"
  /\ alive = TRUE
  /\ files = <<>>
  /\ fileKeys = <<>>
  /\ isInitializing = TRUE
  /\ saveRetryCount = 0
  /\ handlers = [h \in 1..MaxHandlers |-> IdleHandler]
  /\ ready = IdleReady
  /\ refresh = IdleRefreshOver({PathA, PathDirB})
  /\ timers = [t \in 1..MaxTimers |-> IdleTimer]
  /\ response = NoResponse
  /\ disk = [p \in {PathA, PathDirB} |-> LoadDisk[p]]
  /\ watched = {}
  /\ doc = NoDoc
  /\ clock = 130
  /\ ignored = builtInPatterns

\* the scan, refresh_metadata requests and files that go away meanwhile
NextScanRefresh ==
  \/ WatcherOverDisk
  \/ WriteOk
  \/ Refresh
  \/ \E p \in DOMAIN disk : DiskDelete(p)

SpecScanRefresh == InitScanRefresh /\ [][NextScanRefresh]_vars

(***************************************************************************)
(* The tree of a workspace with directories                                *)
(***************************************************************************)
\* "/w/a" was a file, then a directory holding "b.md", and is gone; "/w/e"
\* was a directory holding "f.md" and is now a file; "/w/d" holds a file
\* named "created"
PathFileA == <<47, 119, 47, 97>>
PathAB == <<47, 119, 47, 97, 47, 98, 46, 109, 100>>
PathEF == <<47, 119, 47, 101, 47, 102, 46, 109, 100>>
PathFileE == <<47, 119, 47, 101>>
PathDCreated == <<47, 119, 47, 100, 47, 99, 114, 101, 97, 116, 101, 100>>
PathDX == <<47, 119, 47, 100, 47, 120, 46, 109, 100>>
PathCY == <<47, 119, 47, 99, 47, 121, 46, 109, 100>>
PathTop == <<47, 119, 47, 116, 111, 112, 46, 109, 100>>

\* the paths in the order in which the files were created, a minute apart
TreeOrder ==
  << PathFileA, PathEF, PathDCreated, PathDX, PathAB, PathFileE, PathCY, PathTop >>
TreePaths == {TreeOrder[k] : k \in 1..Len(TreeOrder)}
TreeCreated(p) == 60 * (CHOOSE k \in 1..Len(TreeOrder) : TreeOrder[k] = p)

\* the files that are gone: "/w/a" as a file and as a directory, and the
\* directory "/w/e"
TreeGone == {PathFileA, PathAB, PathEF}

\* the index after the paths of s were tracked, and its keys
TreeIndex(s) ==
  [p \in s |-> NewRecord(TreeCreated(p),
                         IF p = PathTop THEN Utf8ToString(BytesHeading) ELSE <<>>, p)]
TreeKeys(s) == SelectSeq(TreeOrder, LAMBDA p : p \in s)

\* the files of s on disk: "/w/top.md" holds "# A", the others are above
\* MAX_FILE_SIZE
TreeDisk(s) ==
  [p \in TreePaths |->
     IF p \notin s \/ p \in TreeGone THEN NoFile
     ELSE IF p = PathTop
     THEN [present |-> TRUE, birth |-> TreeCreated(p), size |-> Len(BytesHeading),
           bytes |-> BytesHeading]
     ELSE [present |-> TRUE, birth |-> TreeCreated(p), size |-> MAX_FILE_SIZE + 1,
           bytes |-> BytesLarge]]

\* the indexes of up to MaxTracked paths whose levels Array.prototype.sort puts in
\* one order on every engine: where "/w/d" holds a key created, and so has
\* an Invalid Date, at most one dated file lies next to it
TreeIndexes ==
  {s \in SUBSET TreePaths :
     /\ Cardinality(s) <= MaxTracked
     /\ PathDCreated \in s => Cardinality(s \cap {PathFileA, PathFileE, PathTop}) <= 1}

\* the server after its initial scan, ten minutes after the first file was
\* created, with the paths of one of the indexes tracked
InitTree ==
  /\ phase = "watching"
  /\ alive = TRUE
  /\ \E s \in TreeIndexes :
       /\ files = TreeIndex(s)
       /\ fileKeys = TreeKeys(s)
       /\ disk = TreeDisk(s)
       /\ watched = {p \in s : TreeDisk(s)[p].present}
  /\ isInitializing = FALSE
  /\ saveRetryCount = 0
  /\ handlers = [h \in 1..MaxHandlers |-> IdleHandler]
  /\ ready = [pc |-> "done", snap |-> NoSnap]
  /\ refresh = IdleRefreshOver(TreePaths)
  /\ timers = [t \in 1..MaxTimers |-> IdleTimer]
  /\ response = NoResponse
  /\ doc = NoDoc
  /\ clock = 60 * (Len(TreeOrder) + 2)
  /\ ignored = builtInPatterns

\* refresh_metadata requests, each ending with a save of the document
SpecTree == InitTree /\ [][Refresh]_vars

(***************************************************************************)
(* Shutdown: the SIGINT listener of setupErrorHandling                     *)
(***************************************************************************)
\* SIGINT arrives and the listener runs up to its first await: that of
\* this.watcher.close() when there is a watcher, that of this.server.close()
\* when initialization has not yet made one
Interrupt ==
  /\ alive
  /\ phase \in {"constructed", "backup", "loaded", "watching"}
  /\ phase' = IF phase = "watching" THEN "closingWatcher" ELSE "closingServer"
  /\ UNCHANGED <<alive, files, fileKeys, isInitializing, saveRetryCount, handlers, ready,
                 refresh, timers, response, disk, watched, doc, clock, ignored>>

\* this.watcher.close() settles.  The listener has no catch: when the close
\* fails the listener ends there with a rejection nothing handles, on which
\* the runtime either ends the process (exits) or only warns and lets it
\* run, the watcher not closed in both cases
WatcherCloseDone(ok, exits) ==
  /\ alive
  /\ phase = "closingWatcher"
  /\ phase' = IF ok THEN "closingServer" ELSE IF exits THEN "closingWatcher" ELSE "closeFailed"
  /\ alive' = (ok \/ ~exits)
  /\ UNCHANGED <<files, fileKeys, isInitializing, saveRetryCount, handlers, ready,
                 refresh, timers, response, disk, watched, doc, clock, ignored>>

\* this.server.close() settles: process.exit(0) follows a success; a failure
\* is a rejection nothing handles, as above
ServerCloseDone(ok, exits) ==
  /\ alive
  /\ phase = "closingServer"
  /\ phase' = IF ok \/ exits THEN "exited" ELSE "serverCloseFailed"
  /\ alive' = ~(ok \/ exits)
  /\ UNCHANGED <<files, fileKeys, isInitializing, saveRetryCount, handlers, ready,
                 refresh, timers, response, disk, watched, doc, clock, ignored>>

Shutdown ==
  \/ Interrupt
  \/ \E ok, exits \in BOOLEAN : WatcherCloseDone(ok, exits)
  \/ \E ok, exits \in BOOLEAN : ServerCloseDone(ok, exits)

\* the program without refresh_metadata requests, with an interrupt at any
\* moment
NextShutdown == NextWriter \/ Shutdown

SpecShutdown == Init /\ [][NextShutdown]_vars

(***************************************************************************)
(* Properties                                                              *)
(***************************************************************************)
\* a refreshFile call settles for p in this step
Settles(p) ==
  /\ refresh.job[p].pc \in {"stat", "read"}
  /\ refresh'.job[p].pc \in {"done", "none"}

\* a retry timer is armed in this step
Armed == \E t \in 1..MaxTimers : timers'[t].pc = "pending" /\ timers[t].pc # "pending"

\* a write attempt settles in this step
WriteSettles ==
  \/ \E h \in 1..MaxHandlers : handlers[h].pc = "write" /\ handlers'[h].pc # "write"
  \/ ready.pc = "write" /\ ready'.pc # "write"
  \/ refresh.pc = "write" /\ refresh'.pc # "write"
  \/ \E t \in 1..MaxTimers : timers[t].pc = "write" /\ timers'[t].pc # "write"

\* handler h stores its record in this step
Inserts(h) ==
  /\ handlers'[h] # handlers[h]
  /\ \/ handlers[h].pc = "read"
     \/ /\ handlers[h].pc = "stat"
        /\ disk[handlers[h].path].present
        /\ disk[handlers[h].path].size > MAX_FILE_SIZE

\* C1: every step of refresh-all, whether it rewrites a record or marks it
\* stale, leaves the created value of every tracked path as it was.
C1_RefreshKeepsCreated ==
  [][refresh' # refresh =>
       \A p \in DOMAIN files :
         p \in DOMAIN files' /\ files'[p].created = files[p].created]_vars

\* C1 witness: a refresh has marked a tracked record stale and is persisting
C1_Witness ==
  /\ refresh.pc = "write"
  /\ refresh.staleCount = 1
  /\ Tracked(PathA) /\ files[PathA].stale /\ files[PathA].created > 0

\* C2: once a record is in the index its created value never changes, under
\* any interleaving of add handlers and refresh steps.
C2_CreatedNeverChanges ==
  [][\A p \in DOMAIN files :
       p \in DOMAIN files' /\ files'[p].created = files[p].created]_vars

\* C3: after the initial load no step removes a record: the keys of the index
\* only grow, also when the file is gone from disk.
C3_NoRecordRemoved ==
  [][phase # "constructed" =>
       /\ DOMAIN files \subseteq DOMAIN files'
       /\ \A i \in 1..Len(fileKeys) : i <= Len(fileKeys') /\ fileKeys'[i] = fileKeys[i]]_vars

\* C3 witness: the file is gone, a refresh has found it so, the record stays
C3_Witness ==
  /\ Tracked(PathA) /\ files[PathA].stale
  /\ ~disk[PathA].present
  /\ refresh.pc = "idle" /\ response.kind = "result"

\* C4: no add handler persists while the initial scan is in progress, and no
\* handler of a file reported during the initial scan persists at all (their
\* only persist is the one of the ready handler).
C4_InitialScanPersistsOnce ==
  \A h \in 1..MaxHandlers :
    handlers[h].pc = "write" => ~isInitializing /\ ~handlers[h].initial

\* C5: no save call arms more than SAVE_RETRY_MAX retries, whatever other
\* saves do while its retries are pending.
C5_AtMostThreeRetries ==
  \A t \in 1..MaxTimers : timers[t].pc # "idle" => timers[t].n <= SAVE_RETRY_MAX

\* C6 as claimed: the first retry of a chain waits the base delay and each
\* following retry double the previous one, 2^(k-1) * 1000 ms for retry k.
C6_DelayStartsAtBase ==
  \A t \in 1..MaxTimers :
    timers[t].pc = "pending" /\ timers[t].n <= SAVE_RETRY_MAX =>
      timers[t].delayMs = Pow2(timers[t].n - 1) * SAVE_RETRY_BASE_DELAY

\* C6 amended: a retry is armed with the delay 2^c * 1000 ms, c being the
\* retry counter after it has been advanced for this retry (1 <= c <= 3): a
\* chain that starts with the counter at 0 waits 2000 ms first, never 1000.
C6_DelayFromAdvancedCounter ==
  [][\A t \in 1..MaxTimers :
       timers'[t].pc = "pending" /\ timers[t].pc # "pending" =>
         /\ saveRetryCount' = saveRetryCount + 1
         /\ saveRetryCount' <= SAVE_RETRY_MAX
         /\ timers'[t].delayMs = Pow2(saveRetryCount') * SAVE_RETRY_BASE_DELAY
         /\ (saveRetryCount = 0 => timers'[t].delayMs = 2 * SAVE_RETRY_BASE_DELAY)]_vars

\* C6 witness: the third retry of a chain is armed with 8000 ms
C6_Witness ==
  \E t \in 1..MaxTimers :
    /\ timers[t].pc = "pending" /\ timers[t].n = SAVE_RETRY_MAX
    /\ timers[t].delayMs = 8 * SAVE_RETRY_BASE_DELAY

\* C7: the retry counter never exceeds SAVE_RETRY_MAX, and a write attempt
\* that settles without arming a retry (it succeeded, or the retries ran out)
\* leaves the counter at 0.
C7_CounterReset ==
  [][/\ saveRetryCount' <= SAVE_RETRY_MAX
     /\ (WriteSettles /\ ~Armed => saveRetryCount' = 0)]_vars

\* C7 witness: a chain has used all its retries and its last attempt is in
\* flight with the counter at the maximum
C7_Witness ==
  \E t \in 1..MaxTimers :
    timers[t].pc = "write" /\ timers[t].n = SAVE_RETRY_MAX /\ saveRetryCount = SAVE_RETRY_MAX

\* C8: a failed write never ends the process and never reaches the caller:
\* in the step that arms the retry the caller of saveMetadata has returned
\* normally (the ready handler is done, the add handler is done, refresh-all
\* has answered with its result).
C8_FailureStaysInside ==
  [][/\ alive'
     /\ response'.kind # "error"
     /\ (ready.pc = "write" /\ ready' # ready => ready'.pc = "done")
     /\ (refresh.pc = "write" /\ refresh' # refresh =>
           refresh' = IdleRefresh /\ response'.kind = "result")
     /\ \A h \in 1..MaxHandlers :
          handlers[h].pc = "write" /\ handlers'[h] # handlers[h] =>
            handlers'[h] = IdleHandler]_vars

\* C8 witness: the ready handler and a refresh have returned while a retry of
\* a failed write is still pending
C8_Witness ==
  /\ alive
  /\ ready.pc = "done" /\ refresh.pc = "idle" /\ response.kind = "result"
  /\ \E t \in 1..MaxTimers : timers[t].pc = "pending"

\* C9: after the ready signal, the step in which an add handler stores its
\* record also starts that handler's persist of an index holding the record.
C9_ImmediatePersist ==
  [][\A h \in 1..MaxHandlers :
       ~isInitializing /\ Inserts(h) =>
         /\ handlers[h].path \in DOMAIN files'
         /\ handlers'[h].pc = "write"
         /\ handlers'[h].snap = buildFileTree(files')
         /\ handlers[h].path \in DOMAIN handlers'[h].snap.files]_vars

\* C9 witness: a handler started after the ready signal is persisting the
\* record it has just stored
C9_Witness ==
  \E h \in 1..MaxHandlers :
    /\ handlers[h].pc = "write" /\ ~handlers[h].initial
    /\ Tracked(handlers[h].path)
    /\ handlers[h].snap = buildFileTree(files)

\* C10: a refreshFile call that could not re-read its file (stat or content
\* read failed) leaves the record stale with a reason, with its summary and
\* tags as before, and is counted as stale, not as updated.
C10_UnreadableMarkedStale ==
  [][\A p \in Paths :
       Settles(p) /\ ~disk[p].present =>
         /\ files'[p].stale /\ files'[p].staleReason # "none"
         /\ files'[p].summary = files[p].summary
         /\ files'[p].tags = files[p].tags
         /\ refresh'.staleCount = refresh.staleCount + 1
         /\ refresh'.updatedCount = refresh.updatedCount]_vars

\* the refreshFile calls that have not settled
InFlight == {p \in DOMAIN refresh.job : refresh.job[p].pc \in {"stat", "read"}}

\* the refreshFile calls of the current batch that have settled
Settled == {p \in DOMAIN refresh.job : refresh.job[p].pc = "done"}

\* the first n paths of existingFiles, n capped by its length
FirstOf(n) ==
  SubSeq(refresh.existingFiles, 1,
         IF n < Len(refresh.existingFiles) THEN n ELSE Len(refresh.existingFiles))

\* C11: refreshFile is called exactly once for every path that was tracked
\* when the refresh started, batch after batch in the order of the index,
\* however many of the calls fail: while a batch runs, the calls made so far
\* are those of all batches up to it, and when the save starts every path has
\* been attempted once and has been counted as updated or as failed.
C11_EveryPathAttemptedOnce ==
  /\ refresh.pc = "batch" =>
       /\ refresh.started = FirstOf(refresh.i + BATCH_SIZE)
       /\ refresh.updatedCount + refresh.errorCount = refresh.i + Cardinality(Settled)
  /\ refresh.pc = "write" =>
       /\ refresh.started = refresh.existingFiles
       /\ refresh.updatedCount + refresh.errorCount = Len(refresh.existingFiles)
  /\ refresh.pc # "idle" =>
       \A k \in 1..Len(refresh.existingFiles) : refresh.existingFiles[k] = fileKeys[k]

\* C11 witness: two batches have run, paths of the first and of the second
\* have failed, others have been updated
C11_Witness ==
  /\ refresh.pc = "write"
  /\ Len(refresh.existingFiles) > BATCH_SIZE
  /\ files[PathN(1)].stale /\ files[PathN(BATCH_SIZE + 1)].stale
  /\ ~files[PathN(NumPaths)].stale
  /\ refresh.errorCount = 2
  /\ refresh.updatedCount = NumPaths - 2

\* C12: a refresh-all call saves exactly once: the save starts in the step in
\* which the last refreshFile settles (at once when nothing is tracked), with
\* the index of that moment, and the result is returned in the step in which
\* that write settles, never before and never without it.
C12_OnePersistPerRefresh ==
  [][/\ (refresh.pc # "write" /\ refresh'.pc = "write" =>
           /\ refresh'.started = refresh'.existingFiles
           /\ refresh'.updatedCount + refresh'.errorCount = Len(refresh'.existingFiles)
           /\ refresh'.snap = buildFileTree(files'))
     /\ (refresh.pc = "write" /\ refresh' # refresh =>
           refresh'.pc = "idle" /\ response'.kind = "result" /\ doc' = refresh.snap)
     /\ (refresh.pc # "write" => response'.kind # "result" \/ response' = response)
     /\ (refresh.pc = "idle" /\ refresh' # refresh => refresh'.pc \in {"batch", "write"})
     /\ (refresh.pc = "batch" => refresh'.pc \in {"batch", "write"})]_vars

\* C12 witness: a refresh of an empty index is in its save
C12_Witness ==
  /\ refresh.pc = "write"
  /\ refresh.existingFiles = <<>>
  /\ fileKeys = <<>>

\* C13: at most BATCH_SIZE refreshFile calls are pending, all of them of the
\* current batch, and every path of an earlier batch has settled before the
\* current batch was started.
C13_BatchesOfTen ==
  /\ Cardinality(InFlight) <= BATCH_SIZE
  /\ InFlight \subseteq Batch(refresh.existingFiles, refresh.i)
  /\ refresh.pc = "batch" =>
       refresh.updatedCount + refresh.errorCount >= refresh.i

\* C13 witness: the second batch is running with one of its files pending,
\* after the ten files of the first have settled
C13_Witness ==
  /\ refresh.pc = "batch"
  /\ refresh.i = BATCH_SIZE
  /\ Cardinality(InFlight) = 1
  /\ refresh.updatedCount + refresh.errorCount = BATCH_SIZE + 1

\* C14: once a refresh-all has completed (in these runs the document exists
\* from then on) and the disk stays as it is, no step of a later refresh-all
\* changes the index: created, summary, tags, stale and staleReason of every
\* path, and the order of the keys.
C14_SecondRefreshChangesNothing ==
  [][doc.exists => files' = files /\ fileKeys' = fileKeys]_vars

\* C14 witness: a second refresh-all has rewritten readable files and marked
\* missing ones stale again, and is in its save
C14_Witness ==
  /\ doc.exists
  /\ refresh.pc = "write"
  /\ refresh.staleCount >= 1
  /\ refresh.updatedCount >= 1
  /\ \E p \in DOMAIN files : files[p].stale
  /\ \E p \in DOMAIN files : files[p].summary # Utf8ToString(SliceFrom(BytesHeading, 2))

\* the tags of a record as a set, the paths of a result list as a set
TagsOf(rec) == {rec.tags[j] : j \in 1..Len(rec.tags)}
PathsOf(list) == {list[i].path : i \in 1..Len(list)}

\* the tracked paths whose record passes a test, as the result lists name them
Matching(hits) == {RelativePath(p) : p \in hits}

\* a result list holds each matching record once, as the index has it
ListsExactly(r, hits) ==
  /\ r.kind = "return"
  /\ PathsOf(r.files) = Matching(hits)
  /\ Len(r.files) = Cardinality(hits)
  /\ \A i \in 1..Len(r.files) : \E p \in hits :
       /\ r.files[i].path = RelativePath(p)
       /\ r.files[i].created = files[p].created
       /\ r.files[i].summary = files[p].summary
       /\ r.files[i].tags = files[p].tags

\* C15: in every reachable index, list-by-tag with a non-empty string T
\* returns exactly the records that have T among their tags, and fails with
\* its argument error for an empty or non-string tag.
C15_ListByTagExact ==
  \A x \in TagArgs :
    LET r == getFilesByTag(files, fileKeys, x) IN
    IF x.t = "string" /\ x.s # <<>>
    THEN /\ ListsExactly(r, {p \in DOMAIN files : x.s \in TagsOf(files[p])})
         /\ \A i \in 1..Len(r.files) : x.s \in TagsOf(r.files[i])
    ELSE /\ r.kind = "throw"
         /\ r.message = "Tag parameter must be a non-empty string"
         /\ r.files = <<>>

\* C15 witness: a get_files_by_tag request has been answered with some of
\* the tracked records, not all
C15_Witness ==
  /\ response.kind = "list"
  /\ response.name = "get_files_by_tag"
  /\ response.count >= 1
  /\ response.count < Len(fileKeys)

\* C16: a get_recent_files request with a positive window H is answered
\* with exactly the records created strictly later than the query time
\* minus H (created values and keys do not change in these runs).
C16_ListRecentExact ==
  (response.kind \in {"list", "error"}
     /\ response.name = "get_recent_files"
     /\ response.args.present
     /\ response.args.hours.t = "number"
     /\ response.args.hours.n > 0)
    => LET hits == {p \in DOMAIN files :
                      files[p].created > response.now - response.args.hours.n}
       IN /\ response.kind = "list"
          /\ PathsOf(response.files) = Matching(hits)
          /\ response.count = Cardinality(hits)

\* C17: list-recent fails for hours <= 0 and returns no list, called directly
\* and through the get_recent_files tool; the default applies only when the
\* request carries no hours.
C17_NonPositiveHoursRejected ==
  /\ \A x \in HoursArgs : \A now \in Nows :
       x.t = "number" /\ x.n <= 0 =>
         getRecentFiles(files, fileKeys, x, now).kind = "throw"
  /\ (response.kind \in {"list", "error"}
        /\ response.name = "get_recent_files"
        /\ response.args.present
        /\ response.args.hours.t = "number"
        /\ response.args.hours.n <= 0)
       => response.kind = "error" /\ response.files = <<>>

\* two characters are the same letter, whatever their case
SameLetter(a, b) ==
  \/ a = b
  \/ a >= 65 /\ a <= 90 /\ b = a + 32
  \/ b >= 65 /\ b <= 90 /\ a = b + 32

\* q occurs in s when case is ignored
ContainsIgnoringCase(s, q) ==
  \E i \in 0..(Len(s) - Len(q)) : \A k \in 1..Len(q) : SameLetter(s[i + k], q[k])

\* C18: in every reachable index, search with a non-empty string Q returns
\* exactly the records whose file name or summary contains Q when case is
\* ignored, and fails with its argument error for an empty or non-string Q.
C18_SearchExact ==
  \A x \in QueryArgs :
    LET r == searchFiles(files, fileKeys, x) IN
    IF x.t = "string" /\ x.s # <<>>
    THEN ListsExactly(r, {p \in DOMAIN files :
                            \/ ContainsIgnoringCase(BaseName(p), x.s)
                            \/ ContainsIgnoringCase(files[p].summary, x.s)})
    ELSE /\ r.kind = "throw"
         /\ r.message = "Query parameter must be a non-empty string"
         /\ r.files = <<>>

\* C18 witness: a search for "src", which is part of a tracked path but of
\* no file name or summary, has been answered with an empty list while
\* three files are tracked
C18_Witness ==
  /\ response.kind = "list"
  /\ response.name = "search_files"
  /\ response.args.query.s = <<115, 114, 99>>
  /\ response.count = 0
  /\ Len(fileKeys) = 3

\* a result list is sorted by created, newest first, and its count is its length
SortedAndCounted(r) ==
  r.kind = "return" =>
    /\ \A i \in 1..(Len(r.files) - 1) : r.files[i].created >= r.files[i + 1].created
    /\ r.count = Len(r.files)

\* C19: the lists of the four operations are sorted by created descending
\* and counted by their length, and list-all holds every record of the index.
C19_SortedNewestFirst ==
  /\ ListsExactly(getAllFiles(files, fileKeys), DOMAIN files)
  /\ SortedAndCounted(getAllFiles(files, fileKeys))
  /\ \A x \in TagArgs : SortedAndCounted(getFilesByTag(files, fileKeys, x))
  /\ \A x \in HoursArgs : \A now \in Nows :
       SortedAndCounted(getRecentFiles(files, fileKeys, x, now))
  /\ \A x \in QueryArgs : SortedAndCounted(searchFiles(files, fileKeys, x))

\* C19 witness: a get_all_files request has been answered with three records
\* of which the one tracked last is the newest and comes first
C19_Witness ==
  /\ response.kind = "list"
  /\ response.name = "get_all_files"
  /\ response.count = 3
  /\ response.files[1].path = RelativePath(QueryPathSeq[3])
  /\ response.files[1].created > response.files[2].created
  /\ response.files[2].created > response.files[3].created

\* a request is answered in this step
Answered == response' # response /\ response'.kind \in {"list", "error"}

\* requests that fail: an unknown tool, a tool that reads an argument of a
\* request without arguments, a tag or query that is not a non-empty string,
\* hours that are not a number or are negative
FailingRequest(name, args) ==
  \/ name \notin {"get_all_files", "get_files_by_tag", "get_recent_files", "search_files"}
  \/ name # "get_all_files" /\ ~args.present
  \/ name = "get_files_by_tag" /\ (args.tag.t # "string" \/ args.tag.s = <<>>)
  \/ name = "search_files" /\ (args.query.t # "string" \/ args.query.s = <<>>)
  \/ name = "get_recent_files" /\ (args.hours.t = "string" \/ args.hours.n < 0)

\* C20: a request that fails is answered with a textual error payload and no
\* list; answering a request leaves the index and the process as they were,
\* and no step ends the process or stops it from taking requests.
C20_ErrorsAnsweredAsText ==
  [][/\ alive' /\ phase' = phase
     /\ (Answered =>
           /\ files' = files /\ fileKeys' = fileKeys
           /\ (FailingRequest(response'.name, response'.args) =>
                 /\ response'.kind = "error"
                 /\ response'.text # ""
                 /\ response'.files = <<>>))
     /\ (response'.kind = "error" => Answered \/ response' = response)]_vars

\* C20 witness: after a get_files_by_tag request without arguments was
\* answered with an error payload, with three files tracked
C20_Witness ==
  /\ response.kind = "error"
  /\ response.name = "get_files_by_tag"
  /\ ~response.args.present
  /\ Len(fileKeys) = 3
  /\ alive

\* the document on disk does not parse, or parses to something that is no
\* object
Unparsable(d) == YamlParse(TextOf(d)).kind \in {"error", "null", "str"}

\* the document on disk parses to an object whose files are missing or no
\* object
WithoutFiles(d) ==
  /\ YamlParse(TextOf(d)).kind \in {"map", "seq"}
  /\ ItemOf(YamlParse(TextOf(d)), <<102, 105, 108, 101, 115>>).kind \notin {"map", "seq"}

\* C21: loading a document that is read but does not parse, or is no object,
\* starts a backup copy and leaves the reset to the end of the copy; whether
\* the copy succeeds (the backup then holds the bytes of the document) or
\* fails, the index is then reset to empty and the load is over.  Loading a
\* document that parses but has no valid files resets the index to empty
\* at once, without a backup.  Without a document the index is empty.  The
\* server stays alive through every load, so that startWatching follows.
C21_LoadNeverFails ==
  [][ /\ (phase = "constructed" /\ phase' # "constructed") =>
           /\ alive'
           /\ ~doc.exists => phase' = "loaded" /\ files' = <<>> /\ disk' = disk
           /\ (doc.exists /\ Unparsable(doc)) =>
                phase' = "backup" /\ disk' = disk
           /\ (doc.exists /\ WithoutFiles(doc) /\ loadMetadataRead(TRUE)) =>
                phase' = "loaded" /\ files' = <<>> /\ disk' = disk
      /\ (phase = "backup" /\ phase' # "backup") =>
           /\ alive'
           /\ phase' = "loaded"
           /\ files' = <<>>
           /\ doc' = doc
           /\ \/ disk' = disk
              \/ /\ disk'[backupPath].present
                 /\ disk'[backupPath].bytes = Utf8Encode(JoinLines(TextOf(doc)))
                 /\ \A p \in DOMAIN disk \ {backupPath} : disk'[p] = disk[p]
      /\ (phase = "loaded" /\ phase' # "loaded") => phase' = "watching" /\ alive'
    ]_vars

\* the server is watching after the load of a document that does not parse
\* and whose backup copy failed
C21_Witness ==
  /\ phase = "watching"
  /\ alive
  /\ doc.exists
  /\ Unparsable(doc)
  /\ ~disk[backupPath].present
  /\ files = <<>>

\* the records that can be recovered from a loaded mapping of directories
\* and files below the directory dir
RECURSIVE LeavesOf(_, _)
LeavesOf(node, dir) ==
  IF node.kind # "map" THEN {}
  ELSE UNION { IF ItemOf(node.items[k], <<99, 114, 101, 97, 116, 101, 100>>).kind = "str"
               THEN {[path |-> dir \o <<47>> \o node.keys[k],
                      created |-> InstantOf(ItemOf(node.items[k], <<99, 114, 101, 97, 116, 101, 100>>).text),
                      summary |-> ItemOf(node.items[k], <<115, 117, 109, 109, 97, 114, 121>>).text,
                      tags |-> [i \in 1..Len(ItemOf(node.items[k], <<116, 97, 103, 115>>).items) |->
                                  ItemOf(node.items[k], <<116, 97, 103, 115>>).items[i].text]]}
               ELSE LeavesOf(node.items[k], dir \o <<47>> \o node.keys[k])
             : k \in 1..Len(node.keys) }

\* what can be recovered from a loaded index: its records under their keys,
\* or the records below its Root
RecoveredFrom(f) ==
  UNION { IF "node" \in DOMAIN f[k]
          THEN IF k = <<82, 111, 111, 116>> THEN LeavesOf(f[k].node, <<47, 119>>) ELSE {}
          ELSE {[path |-> k, created |-> f[k].created, summary |-> f[k].summary,
                 tags |-> f[k].tags]}
        : k \in DOMAIN f }

\* C22: when the load of a document that saveMetadata wrote is over, the
\* paths of the persisted index can be recovered from the loaded state,
\* each with its summary, its tags and its created instant to the second.
C22_RoundTrip ==
  [][ (phase # "loaded" /\ phase' = "loaded" /\ doc.exists /\ "lines" \notin DOMAIN doc) =>
        RecoveredFrom(files') =
          {[path |-> p, created |-> doc.files[p].created, summary |-> doc.files[p].summary,
            tags |-> doc.files[p].tags] : p \in DOMAIN doc.files}
    ]_vars

C25_SummaryAtMost80 ==
  \A p \in DOMAIN files : Len(files[p].summary) <= SUMMARY_MAX

MagicPrefixes ==
  { <<80, 75>>, <<137>> \o <<80, 78, 71>>, <<71, 73, 70>>, <<255, 216>>, <<37, 80, 68, 70>> }

\* the first min(length, 512) bytes of a buffer
SampleOf(buffer) ==
  SubSeq(buffer, 1, IF Len(buffer) < 512 THEN Len(buffer) ELSE 512)

\* the decision procedure, step by step: "open" when a step does not decide
DecidedByExtension(filePath) ==
  LET e == ToLowerCase(ExtName(filePath))
  IN IF e \in knownTextExts THEN "text"
     ELSE IF e \in knownBinaryExts THEN "binary" ELSE "open"

DecidedByMagic(buffer) ==
  IF Len(buffer) >= 4 /\ \E m \in MagicPrefixes : StartsWith(buffer, m)
  THEN "binary" ELSE "open"

DecidedBySample(buffer) ==
  LET sample == SampleOf(buffer)
      bad == {i \in 1..Len(sample) : sample[i] < 32 /\ sample[i] \notin {9, 10, 13}}
  IN IF sample = <<>> THEN "text"
     ELSE IF 10 * Cardinality(bad) > 3 * Len(sample) THEN "binary" ELSE "text"

\* C27: a buffer is classified by the first step that decides: known text
\* extension (text), known binary extension (binary), a magic number at the
\* start of a buffer of at least 4 bytes (binary), and otherwise binary
\* exactly when more than 30% of the first min(length, 512) bytes are below
\* 32 and not tab, line feed or carriage return.  A .md path is text
\* whatever its bytes, and the PNG signature under an extension in neither
\* table is binary.
C27_ClassifiedByFirstDecidingStep ==
  response.kind = "classified" =>
    /\ response.binary =
         (LET byExt == DecidedByExtension(response.path)
              byMagic == DecidedByMagic(response.buffer)
          IN IF byExt # "open" THEN byExt = "binary"
             ELSE IF byMagic # "open" THEN TRUE
             ELSE DecidedBySample(response.buffer) = "binary")
    /\ ExtName(response.path) = X_md => ~response.binary
    /\ (/\ response.buffer = <<137, 80, 78, 71>>
        /\ ToLowerCase(ExtName(response.path)) \notin knownTextExts \cup knownBinaryExts)
         => response.binary

\* a .md file holding the PNG signature has been classified as text
C27_Witness ==
  /\ response.kind = "classified"
  /\ response.path = PathA
  /\ response.buffer = <<137, 80, 78, 71>>
  /\ ~response.binary

\* the record of a file whose content was taken as empty
TrackedAsEmpty(f, p) ==
  /\ p \in DOMAIN f
  /\ f[p].summary = ExtName(p) \o <<32, 102, 105, 108, 101>>
  /\ ExtName(p) # <<>> => \E i \in 1..Len(f[p].tags) : <<46>> \o f[p].tags[i] = ExtName(p)

TponHolds(c) == disk[tponignorePath].present /\ disk[tponignorePath].bytes = c

\* text stands in s at the start or right after a path separator and, when
\* whole is asked for, ends at the end of s or right before a path separator
OccursAtSegmentStart(text, s, whole) ==
  \E i \in 1..(Len(s) - Len(text) + 1) :
    /\ SubSeq(s, i, i + Len(text) - 1) = text
    /\ i = 1 \/ s[i - 1] \in Separators
    /\ whole => (i + Len(text) - 1 = Len(s) \/ s[i + Len(text)] \in Separators)

\* paths the compiled predicates are tried on
ProbePaths ==
  { <<112, 114, 111, 106, 101, 99, 116, 47, 100, 105, 115, 116, 47, 111, 117, 116, 46, 106, 115>>, <<100, 105, 115, 116, 47, 111, 117, 116, 46, 106, 115>>, <<100, 105, 115, 116, 114, 105, 98, 117, 116, 105, 111, 110, 47, 111, 117, 116, 46, 106, 115>>,
    <<109, 121, 100, 105, 115, 116, 47, 111, 117, 116, 46, 106, 115>>, <<100, 105, 115, 116>>, <<120, 92, 100, 105, 115, 116, 92, 121>>, <<115, 114, 99, 47, 100, 105, 115, 116, 46, 106, 115>>,
    <<97, 46, 108, 111, 103>>, <<100, 105, 114, 47, 98, 46, 108, 111, 103>>, <<98, 46, 108, 111, 103, 115, 47, 120>>, <<97, 108, 111, 103>>, <<47, 119, 47, 97, 46, 109, 100>> }

\* C29: the watcher reports a file exactly when no compiled predicate
\* matches its path (no reported path is matched by a predicate, and once the
\* initial scan is over every file there is that no predicate matches has been reported);
\* the predicate compiled from "dist/" matches project/dist/out.js and
\* dist/out.js, not distribution/out.js; the one compiled from "*.log"
\* matches a.log and dir/b.log; and a predicate compiled from a pattern
\* without a leading "/" and without wildcards matches a path exactly when
\* the pattern stands in it at the start or right after a path separator
\* (for "dist/": as a whole segment).
C29_IgnoredWhenSomePatternMatches ==
  phase = "watching" =>
    /\ \A p \in watched : \A i \in 1..Len(ignored) : ~RegExpTest(ignored[i], p)
    /\ ready.pc # "idle" =>
         \A p \in DOMAIN disk :
           disk[p].present /\ (\A i \in 1..Len(ignored) : ~RegExpTest(ignored[i], p))
             => p \in watched
    /\ TponHolds(<<100, 105, 115, 116, 47, 10>>) =>
         /\ RegExpTest(ignored[1], <<112, 114, 111, 106, 101, 99, 116, 47, 100, 105, 115, 116, 47, 111, 117, 116, 46, 106, 115>>)
         /\ RegExpTest(ignored[1], <<100, 105, 115, 116, 47, 111, 117, 116, 46, 106, 115>>)
         /\ ~RegExpTest(ignored[1], <<100, 105, 115, 116, 114, 105, 98, 117, 116, 105, 111, 110, 47, 111, 117, 116, 46, 106, 115>>)
         /\ \A s \in ProbePaths :
              RegExpTest(ignored[1], s) <=> OccursAtSegmentStart(<<100, 105, 115, 116>>, s, TRUE)
    /\ TponHolds(<<42, 46, 108, 111, 103, 10>>) =>
         /\ RegExpTest(ignored[1], <<97, 46, 108, 111, 103>>)
         /\ RegExpTest(ignored[1], <<100, 105, 114, 47, 98, 46, 108, 111, 103>>)
         /\ \A s \in ProbePaths : RegExpTest(ignored[1], s) <=> Includes(s, <<46, 108, 111, 103>>)
    /\ TponHolds(<<100, 105, 115, 116, 10, 97, 46, 63, 100, 10>>) =>
         \A s \in ProbePaths :
           RegExpTest(ignored[1], s) <=> OccursAtSegmentStart(<<100, 105, 115, 116>>, s, FALSE)

\* the initial scan is over with "dist/" in .tponignore: the file under
\* distribution/ is tracked, the one under dist/ was never reported
C29_Witness ==
  /\ ready.pc = "done"
  /\ TponHolds(<<100, 105, 115, 116, 47, 10>>)
  /\ <<47, 119, 47, 100, 105, 115, 116, 114, 105, 98, 117, 116, 105, 111, 110, 47, 111, 117, 116, 46, 106, 115>> \in DOMAIN files
  /\ <<47, 119, 47, 100, 105, 115, 116, 47, 111, 117, 116, 46, 106, 115>> \notin watched

\* paths of the metadata document and of backups of it
DocumentProbes ==
  { yamlPath, backupPath, <<95, 116, 105, 109, 101, 112, 111, 110, 46, 121, 97, 109, 108>>, <<67, 58, 92, 119, 92, 95, 116, 105, 109, 101, 112, 111, 110, 46, 121, 97, 109, 108>>,
    <<47, 119, 47, 95, 116, 105, 109, 101, 112, 111, 110, 46, 121, 97, 109, 108, 46, 98, 97, 99, 107, 117, 112, 46, 49, 55, 54, 50, 50, 50, 52, 48, 48, 48, 48, 48, 48>> }

\* C30: whatever the two ignore files hold (or when they are missing), the
\* two built-in patterns are the last of the watcher's patterns, every path
\* of the document or of a backup of it is matched by a pattern, and the
\* document and its backup are never reported, handled or tracked, however
\* often the document is persisted.
C30_DocumentNeverTracked ==
  /\ \A p \in {yamlPath, backupPath} :
       /\ p \notin watched
       /\ p \notin DOMAIN files
       /\ \A h \in 1..MaxHandlers : handlers[h].path # p
  /\ phase = "watching" =>
       /\ Len(ignored) >= Len(builtInPatterns)
       /\ SubSeq(ignored, Len(ignored) - Len(builtInPatterns) + 1, Len(ignored)) = builtInPatterns
       /\ \A s \in DocumentProbes : \E i \in 1..Len(ignored) : RegExpTest(ignored[i], s)

\* the initial scan is over and the index has been persisted with records in
\* it, under a .tponignore that tries to exempt the document: it stays out
C30_Witness ==
  /\ ready.pc = "done"
  /\ doc.exists /\ doc.totalFiles > 0
  /\ TponHolds(<<33, 95, 116, 105, 109, 101, 112, 111, 110, 46, 121, 97, 109, 108, 10, 47, 97, 46, 109, 100>>)
  /\ yamlPath \notin watched
  /\ Len(ignored) = 4


\* the lines of the persisted document
DocLines == TextOf(doc)

\* a document line without its indentation
Unindented(i) == SliceFrom(DocLines[i], Indent(DocLines[i]))

\* the comment lines that open the entries of the tree, and those of them
\* that open a directory
Markers == {i \in 1..Len(DocLines) : StartsWith(Unindented(i), <<35, 32>>)}
IsDirMarker(i) == StartsWith(Unindented(i), <<35, 32, 61, 61, 61, 32>>)

\* the key of the entry opened at line i: the next line without its colon
NameOf(i) == SubSeq(Unindented(i + 1), 1, Len(Unindented(i + 1)) - 1)

\* the minute of the day on the created line of the entry opened at line i,
\* -1 when the line shows no time
CreatedOf(i) ==
  LET t == SliceFrom(Unindented(i + 2), Len(<<99, 114, 101, 97, 116, 101, 100, 58, 32, 48, 52, 32, 78, 111, 118, 32, 50, 48, 50, 54, 32>>))
  IN IF Len(t) >= 5 /\ IsDigits(SubSeq(t, 1, 2)) /\ IsDigits(SubSeq(t, 4, 5))
     THEN 60 * Num2(SubSeq(t, 1, 2)) + Num2(SubSeq(t, 4, 5))
     ELSE -1

\* the entries opened at lines i and j are children of one level, i first
Siblings(i, j) ==
  /\ i < j
  /\ Indent(DocLines[i]) = Indent(DocLines[j])
  /\ \A k \in Markers : i < k /\ k < j => Indent(DocLines[k]) > Indent(DocLines[i])

\* name is a directory of the workspace: some tracked path goes through it
IsDirectory(name) ==
  \E p \in DOMAIN doc.files :
    \E n \in 1..(Len(RelativeParts(p)) - 1) : RelativeParts(p)[n] = name

\* C31: in the serialized document, at every nesting level the directories
\* come before the files, the directories in alphabetical order and the
\* files newest first
C31_DirectoriesThenFilesInOrder ==
  doc.exists =>
    \A i, j \in Markers :
      Siblings(i, j) =>
        /\ IsDirectory(NameOf(j)) => IsDirectory(NameOf(i))
        /\ IsDirectory(NameOf(i)) /\ IsDirectory(NameOf(j)) =>
             /\ IsDirMarker(i) /\ IsDirMarker(j)
             /\ LexLess(NameOf(i), NameOf(j))
        /\ ~IsDirectory(NameOf(i)) /\ ~IsDirectory(NameOf(j)) =>
             /\ ~IsDirMarker(i) /\ ~IsDirMarker(j)
             /\ CreatedOf(j) >= 0
             /\ CreatedOf(i) >= CreatedOf(j)

\* a watcher has been started and has not been closed
WatcherOpen == phase \in {"watching", "closingWatcher", "closeFailed"}

\* C32: the process is never gone while its watcher is open: after an
\* interrupt the watcher is closed before the process exits, whenever the
\* interrupt arrives and whether or not closing the watcher or the server
\* fails.
C32_WatcherClosedBeforeExit == ~alive => ~WatcherOpen

\* the content extracted from the one file of the workspace: empty for a
\* file above 1 MiB or a binary one
ExtractedContent(p) ==
  IF disk[p].size > 1048576 \/ isBinary(disk[p].bytes, p) THEN <<>>
  ELSE Utf8ToString(disk[p].bytes)

\* the keyword tags in their order, each with the words that call for it
KeywordTags ==
  << [tag |-> <<116, 97, 115, 107, 115>>, words |-> {<<116, 111, 100, 111>>, <<116, 97, 115, 107>>}],
     [tag |-> <<97, 112, 105>>, words |-> {<<97, 112, 105>>, <<101, 110, 100, 112, 111, 105, 110, 116>>}],
     [tag |-> <<100, 97, 116, 97>>, words |-> {<<115, 99, 104, 101, 109, 97>>, <<100, 97, 116, 97, 98, 97, 115, 101>>}],
     [tag |-> <<97, 114, 99, 104, 105, 116, 101, 99, 116, 117, 114, 101>>, words |-> {<<97, 114, 99, 104, 105, 116, 101, 99, 116, 117, 114, 101>>, <<100, 101, 115, 105, 103, 110>>}] >>

\* all the tags a file calls for, before the cut: extension, category,
\* keyword tags
TagsCalledFor(content, p) ==
  LET e == SliceFrom(ExtName(p), 1)
      called == SelectSeq(KeywordTags,
                  LAMBDA k : e = <<109, 100>> /\ \E w \in k.words : Includes(ToLowerCase(content), w))
  IN (IF e = <<>> THEN <<>> ELSE <<e>>)
       \o (IF e \in codeExts THEN << <<99, 111, 100, 101>> >>
           ELSE IF e \in docExts THEN << <<100, 111, 99, 115>> >>
           ELSE IF e \in configExts THEN << <<99, 111, 110, 102, 105, 103>> >> ELSE <<>>)
       \o [i \in 1..Len(called) |-> called[i].tag]

\* C33: the tags of a record are the first three of: the extension (when
\* there is one), the one category tag of the extension, and for Markdown
\* content the keyword tags in the order tasks, api, data, architecture.
\* The tags of a .md file start with md, docs; those of a .json file are
\* json, config.
C33_TagsInFixedOrder ==
  \A p \in DOMAIN files :
    LET all == TagsCalledFor(ExtractedContent(p), p)
        tags == files[p].tags
    IN /\ tags = SubSeq(all, 1, IF Len(all) < 3 THEN Len(all) ELSE 3)
       /\ ExtName(p) = <<46, 109, 100>> => SubSeq(tags, 1, 2) = << <<109, 100>>, <<100, 111, 99, 115>> >>
       /\ ExtName(p) = <<46, 106, 115, 111, 110>> => tags = << <<106, 115, 111, 110>>, <<99, 111, 110, 102, 105, 103>> >>

\* README.md with the heading "# Timepon" is tracked with summary "Timepon"
\* and tags md, docs; or a .md file naming all four keyword groups is
\* tracked with md, docs, tasks
C33_Witness ==
  \/ /\ <<47, 119, 47, 82, 69, 65, 68, 77, 69, 46, 109, 100>> \in DOMAIN files
     /\ disk[<<47, 119, 47, 82, 69, 65, 68, 77, 69, 46, 109, 100>>].bytes = <<35, 32, 84, 105, 109, 101, 112, 111, 110>>
     /\ files[<<47, 119, 47, 82, 69, 65, 68, 77, 69, 46, 109, 100>>].summary = <<84, 105, 109, 101, 112, 111, 110>>
     /\ files[<<47, 119, 47, 82, 69, 65, 68, 77, 69, 46, 109, 100>>].tags = << <<109, 100>>, <<100, 111, 99, 115>> >>
     /\ refresh.updatedCount > 0
  \/ /\ PathA \in DOMAIN files
     /\ disk[PathA].bytes = <<84, 79, 68, 79, 58, 32, 116, 104, 101, 32, 65, 80, 73, 44, 32, 105, 116, 115, 32, 83, 99, 104, 101, 109, 97, 32, 97, 110, 100, 32, 116, 104, 101, 32, 100, 101, 115, 105, 103, 110>>
     /\ files[PathA].tags = << <<109, 100>>, <<100, 111, 99, 115>>, <<116, 97, 115, 107, 115>> >>
     /\ refresh.updatedCount > 0

\* a line that begins, after optional white space, with // or #
BeginsWithMarker(l) == StartsWith(Trim(l), <<47, 47>>) \/ StartsWith(Trim(l), <<35>>)

\* a comment line without its white space in front, its marker (the run of
\* '/' and '#' it begins with) and the white space after the marker
WithoutMarker(l) ==
  LET t == Trim(l)
      k == LeadingRun(t, {47, 35})
  IN SliceFrom(t, k + LeadingRun(SliceFrom(t, k), SpaceClass))

\* C34: the summary of a non-empty file with the extension .js, .ts, .py,
\* .java, .cs or .go is its first non-blank line that begins, after
\* optional white space, with // or #, without the marker and cut to 80
\* characters, and "<ext> source file" when it has no such line.
C34_SummaryOfSourceFile ==
  \A p \in DOMAIN files :
    (ExtName(p) \in {<<46, 106, 115>>, <<46, 116, 115>>, <<46, 112, 121>>, <<46, 106, 97, 118, 97>>, <<46, 99, 115>>, <<46, 103, 111>>}
       /\ disk[p].bytes # <<>> /\ disk[p].size <= 1048576) =>
      LET lines == SplitOn(Utf8ToString(disk[p].bytes), 10)
          marked == {i \in 1..Len(lines) : BeginsWithMarker(lines[i])}
      IN IF marked = {}
         THEN files[p].summary = SliceFrom(ExtName(p), 1) \o <<32, 115, 111, 117, 114, 99, 101, 32, 102, 105, 108, 101>>
         ELSE files[p].summary =
                SubSeq(WithoutMarker(lines[CHOOSE i \in marked : \A j \in marked : i <= j]), 1,
                       IF Len(WithoutMarker(lines[CHOOSE i \in marked : \A j \in marked : i <= j])) < 80
                       THEN Len(WithoutMarker(lines[CHOOSE i \in marked : \A j \in marked : i <= j]))
                       ELSE 80)


\* a handler whose fs.stat or whose fs.readFile fails returns with nothing
\* stored, nothing saved and nothing else disturbed
DroppedBy(h) ==
  /\ files' = files
  /\ fileKeys' = fileKeys
  /\ handlers' = [handlers EXCEPT ![h] = IdleHandler]
  /\ alive' = alive
  /\ UNCHANGED <<timers, doc, saveRetryCount>>

\* C35: on an add event, a file whose stat or whose content read fails is
\* dropped: no record is inserted for it, the index is left unchanged, no
\* persist is started, the process goes on and the other handlers are left
\* as they are
C35_FailedAddIsDropped ==
  [][\A h \in 1..MaxHandlers :
       (StatDone(h, FALSE) \/ ReadDone(h, FALSE)) => DroppedBy(h)]_vars


\* no add handler, ready handler, refresh or retry is in progress, and the
\* save of the ready handler has been written
Quiescent ==
  /\ \A h \in 1..MaxHandlers : handlers[h].pc = "idle"
  /\ \A t \in 1..MaxTimers : timers[t].pc = "idle"
  /\ refresh.pc = "idle"
  /\ ready.pc = "done"

\* C36: once the system is quiescent and every write has succeeded, the
\* persisted document is the serialization of the current index, in
\* whatever order the writes of overlapping saves completed
C36_DocumentIsCurrentIndex == Quiescent => doc = buildFileTree(files)


\* the lines "created: ..." of the file entries
CreatedLines ==
  {i \in 1..Len(DocLines) :
     StartsWith(SliceFrom(DocLines[i], Indent(DocLines[i])), <<99, 114, 101, 97, 116, 101, 100, 58, 32>>)}

\* the value under the parts in the tree object obj
RECURSIVE ValueAt(_, _)
ValueAt(obj, parts) ==
  IF Len(parts) = 0 THEN obj
  ELSE IF obj.t # "obj" THEN Undefined
  ELSE ValueAt(GetKey(obj, parts[1]), Tail(parts))

\* value is the leaf of the record rec and nothing more
IsLeafOf(value, rec) ==
  /\ value.t = "obj"
  /\ Len(value.v) = Len(LeafOf(rec).v)
  /\ DateOfValue(value) = rec.created
  /\ SummaryText(value) = rec.summary

\* value is a container: an object that does not pass for a file
IsContainer(value) == value.t = "obj" /\ ~IsFileValue(value)

\* C37: every record of the index appears in the serialized tree exactly
\* once, as a leaf at the place its path segments give, below plain
\* containers, so that the document has as many file entries as totalFiles
\* says
C37_EveryRecordIsOneLeaf ==
  doc.exists =>
    /\ Cardinality(CreatedLines) = doc.totalFiles
    /\ \A p \in DOMAIN doc.files :
         LET parts == RelativeParts(p) IN
           /\ IsLeafOf(ValueAt(TreeFiles(doc), parts), doc.files[p])
           /\ \A n \in 1..(Len(parts) - 1) :
                IsContainer(ValueAt(TreeFiles(doc), SubSeq(parts, 1, n)))


\* C38: a refreshFile call that settles leaves its record stale exactly
\* when its re-read failed (fs.stat or the content read), and a record that
\* an earlier refresh marked stale has neither the flag nor a reason once its
\* file has been re-read
C38_StaleExactlyWhenRereadFailed ==
  [][\A p \in Paths :
       Settles(p) =>
         /\ files'[p].stale <=> ~disk[p].present
         /\ disk[p].present => files'[p].staleReason = "none"]_vars


\* the paths of existingFiles
RefreshedPaths == {refresh.existingFiles[k] : k \in 1..Len(refresh.existingFiles)}

\* C39: refresh-all works on the paths tracked when it started: when its
\* batches are over, updated + stale is the number of those paths and errored
\* equals stale, and no step of it touches the record of a path that an add
\* event stored while it was running
C39_CountsCoverPathsAtStart ==
  [][/\ (refresh.pc = "idle" /\ refresh'.pc # "idle") => refresh'.existingFiles = fileKeys
     /\ (refresh.pc # "idle" /\ refresh'.pc # "idle") =>
          refresh'.existingFiles = refresh.existingFiles
     /\ refresh'.pc = "write" =>
          /\ refresh'.updatedCount + refresh'.staleCount = Len(refresh'.existingFiles)
          /\ refresh'.errorCount = refresh'.staleCount
     /\ \A p \in DOMAIN files :
          (refresh' # refresh /\ refresh.pc # "idle" /\ p \notin RefreshedPaths) =>
            (p \in DOMAIN files' /\ files'[p] = files[p])]_vars

\* a refresh that started with one path tracked has marked it stale, and a
\* second path, stored by an add handler meanwhile, is in the index
C39_Witness ==
  /\ refresh.pc = "write"
  /\ Len(refresh.existingFiles) = 1
  /\ refresh.staleCount = 1 /\ refresh.updatedCount = 0
  /\ Cardinality(DOMAIN files) = 2


\* C40: an add event for a path that is already tracked changes nothing: the
\* record (created, summary, tags, stale flag) stays as it is, no handler
\* goes on to fs.stat or to a read, and no save is started, during the
\* initial scan and after it
C40_AddOfTrackedPathChangesNothing ==
  [][\A p \in Paths :
       (AddEvent(p) /\ Tracked(p)) =>
         UNCHANGED <<files, fileKeys, handlers, ready, refresh, timers, doc,
                     saveRetryCount, isInitializing, response, alive>>]_vars

\* a record was marked stale while its file was away, the file is back and the
\* watcher has reported it: that add event found the path tracked
C40_Witness ==
  /\ Tracked(PathA) /\ files[PathA].stale
  /\ disk[PathA].present /\ PathA \in watched
  /\ \A h \in 1..MaxHandlers : handlers[h].pc = "idle"

====
